---- MODULE Spec2Model ----
(***************************************************************************)
(* State-machine model of the MCP manager core: the gateway (MCPGateway),  *)
(* the per-client session (MCPSession), the registry (MCPServerManager),   *)
(* the permission and tool state of the supervisor (MCPServerInstance)     *)
(* and the credential store (Keystore).                                    *)
(***************************************************************************)
EXTENDS Integers, Sequences, FiniteSets, TLC

VARIABLES
    m_clients,            \* MCPGateway::m_clients: the connected sockets
    m_sessions,           \* MCPGateway::m_sessions: session id -> MCPSession
    m_sessionClients,     \* MCPGateway::m_sessionClients: session id -> socket
    m_sessionCounter,     \* MCPGateway::m_sessionCounter
    procs,                \* QProcess of every session ever started: id -> state
    history,              \* sessionCreated / sessionDestroyed events per id
    registered_clients,   \* MCPServerManager: m_config["registered_clients"]
    m_servers,            \* MCPServerManager::m_servers: name -> config
    m_tools,              \* MCPServerInstance::m_tools per server
    m_permissions,        \* MCPServerInstance::m_permissions per server
    m_globalPermissions,  \* MCPServerManager::m_globalPermissions
    lastOp,               \* the handler that ran last, its inputs and its answer
    keystoreFile,         \* the file at Keystore::m_keystorePath
    ksLast,               \* the Keystore operation that ran last and its result
    cipherLast,           \* the token encrypt returned last and what became of it
    instance,             \* a supervisor (MCPServerInstance) and its QProcess
    configFile,           \* the configuration file of the registry
    m_configPath          \* MCPServerManager::m_configPath, "" before a load

gwVars  == <<m_clients, m_sessions, m_sessionClients, m_sessionCounter, procs,
             history>>
regVars == <<registered_clients, m_servers, m_tools, m_permissions,
             m_globalPermissions>>
ksVars  == <<keystoreFile, ksLast>>
cipherVars == <<cipherLast>>
svVars  == <<instance>>
cfgVars == <<configFile, m_configPath>>
vars    == <<gwVars, regVars, lastOp, ksVars, cipherVars, svVars, cfgVars>>

\* what the handlers of the gateway and the registry leave alone, and what
\* the operations of the credential store leave alone
outsideGateway    == <<ksVars, cipherVars, svVars, cfgVars>>
outsideKeystore   == <<gwVars, regVars, lastOp, cipherVars, svVars, cfgVars>>
outsideCipher     == <<gwVars, regVars, lastOp, ksVars, svVars, cfgVars>>
outsideSupervisor == <<gwVars, regVars, lastOp, ksVars, cipherVars, cfgVars>>
outsideRegistry   == <<gwVars, registered_clients, ksVars, cipherVars, svVars>>

-----------------------------------------------------------------------------
(* Bounds of the analysis *)

MaxReqH == 3      \* requests accepted per session, handshake analysis
MaxReqG == 1      \* requests accepted per session, gateway analysis
MaxReqA == 1      \* requests accepted per session, authorization analysis

-----------------------------------------------------------------------------
(* JSON values used as request ids (QJsonValue) *)

JsonNum(n) == [n |-> n, t |-> "num", s |-> ""]
JsonStr(s) == [n |-> 0, t |-> "str", s |-> s]
JsonNull   == [n |-> 0, t |-> "null", s |-> ""]

\* QJsonValue::toInt(): the number for an integral number, 0 for anything else
ToInt(j) == IF j.t = "num" THEN j.n ELSE 0

\* QMap helpers
EmptyMap == [k \in {} |-> TRUE]
MapSet(m, k, v) == [x \in (DOMAIN m) \cup {k} |-> IF x = k THEN v ELSE m[x]]
MapRemove(m, k) == [x \in (DOMAIN m) \ {k} |-> m[x]]

-----------------------------------------------------------------------------
(* MCPSession *)

InitRequestId == 999
BLOCK_ALL == "__BLOCK_ALL__"

\* a line written to the stdin of a subprocess
Msg(id, method, name, arguments) ==
    [id |-> id, method |-> method, name |-> name, arguments |-> arguments]

InitRequest  == Msg(JsonNum(InitRequestId), "initialize", "", "")
InitializedNotification == Msg(JsonNull, "notifications/initialized", "", "")

\* MCPSession constructor; stdin is the log of what was written to m_process
NewSession(serverType, userId, permissions, credentials) ==
    [serverType        |-> serverType,
     userId            |-> userId,
     permissions       |-> permissions,
     m_credentials     |-> credentials,
     m_initialized     |-> FALSE,
     m_initRequestId   |-> InitRequestId,
     m_pendingRequests |-> <<>>,
     stdin             |-> <<>>]

\* MCPSession::sendRequest on session record s; running = isServerRunning()
MCPSession_sendRequest(s, running, request) ==
    IF ~running THEN s
    ELSE IF ~s.m_initialized /\ ToInt(request.id) # s.m_initRequestId
         THEN [s EXCEPT !.m_pendingRequests = Append(@, request)]
         ELSE [s EXCEPT !.stdin = Append(@, request)]

\* the loop that sends the queued requests once the session is initialized
RECURSIVE FlushPending(_, _, _)
FlushPending(s, running, queue) ==
    IF queue = <<>> THEN s
    ELSE FlushPending(MCPSession_sendRequest(s, running, Head(queue)),
                      running, Tail(queue))

\* MCPSession::initializeServerProtocol, called from onProcessStarted
MCPSession_initializeServerProtocol(s, running) ==
    MCPSession_sendRequest(s, running, InitRequest)

\* variant of the initialize-response branch that leaves the queue as it is
\* after sending it (sensitivity of C34)
HandleInitializeResponse_KeepingQueue(s, running) ==
    LET s1 == [s EXCEPT !.stdin = Append(@, InitializedNotification),
                        !.m_initialized = TRUE]
    IN  FlushPending(s1, running, s1.m_pendingRequests)

\* the session's part of onProcessReadyRead for an initialize response
HandleInitializeResponse(s, running) ==
    LET s1 == [s EXCEPT !.stdin = Append(@, InitializedNotification),
                        !.m_initialized = TRUE]
        s2 == FlushPending(s1, running, s1.m_pendingRequests)
    IN  [s2 EXCEPT !.m_pendingRequests = <<>>]

\* MCPSession::hasUserSpecificPermissions / hasPermission
MCPSession_hasUserSpecificPermissions(s) == s.permissions # {}
MCPSession_hasPermission(s, name) == name \in s.permissions

-----------------------------------------------------------------------------
(* MCPServerInstance: tools and permissions *)

Categories == {"READ_REMOTE", "WRITE_REMOTE", "WRITE_LOCAL", "EXECUTE_AI",
               "EXECUTE_CODE"}

ToolInfo(name, enabled, permissions) ==
    [name |-> name, permissions |-> permissions, enabled |-> enabled]

\* index of the first descriptor with that name, 0 when there is none
FindTool(tools, toolName) ==
    IF \E i \in 1..Len(tools) : tools[i].name = toolName
    THEN CHOOSE i \in 1..Len(tools) :
            /\ tools[i].name = toolName
            /\ \A j \in 1..(i-1) : tools[j].name # toolName
    ELSE 0

\* variant of isToolEnabled that ignores the enabled flag (sensitivity of C5)
IsToolEnabled_IgnoringFlag(server, toolName) == TRUE

MCPServerInstance_isToolEnabled(server, toolName) ==
    LET i == FindTool(m_tools[server], toolName)
    IN  IF i # 0 THEN m_tools[server][i].enabled ELSE TRUE

\* variant of hasPermission that ignores the overrides of the server
\* (sensitivity of C15)
HasPermission_GlobalOnly(server, category) ==
    IF category \in DOMAIN m_globalPermissions
    THEN m_globalPermissions[category] ELSE FALSE

MCPServerManager_getGlobalPermission(category) ==
    IF category \in DOMAIN m_globalPermissions
    THEN m_globalPermissions[category] ELSE FALSE

MCPServerInstance_hasPermission(server, category) ==
    IF category \in DOMAIN m_permissions[server]
    THEN m_permissions[server][category]
    ELSE MCPServerManager_getGlobalPermission(category)

\* the string -> PermissionCategory conversion of checkToolPermissions
ParseCategory(permStr) ==
    IF permStr \in Categories THEN permStr ELSE "READ_REMOTE"

MCPServerInstance_checkToolPermissions(server, toolName) ==
    LET i == FindTool(m_tools[server], toolName)
    IN  IF i # 0
        THEN \A k \in 1..Len(m_tools[server][i].permissions) :
                MCPServerInstance_hasPermission(server,
                    ParseCategory(m_tools[server][i].permissions[k]))
        ELSE TRUE

-----------------------------------------------------------------------------
(* MCPGateway: helpers *)

NoId == JsonNull

Op(op, client, sid, id, tool, sent, code, fwd) ==
    [id |-> id, arguments |-> "", enabled |-> FALSE, category |-> "", op |-> op,
     client |-> client, sid |-> sid, tool |-> tool, sent |-> sent,
     code |-> code, fwd |-> fwd, result |-> FALSE]

\* the requests of clients a session holds, written or queued
ClientRequests(s) ==
    LET all == s.stdin \o s.m_pendingRequests
    IN  Cardinality({i \in 1..Len(all) :
                        all[i].method \in {"tools/call", "tools/list"}})

\* bound of the analysis: the session accepts at most max client requests
ReqBudget(sid, max) ==
    sid \in DOMAIN m_sessions => ClientRequests(m_sessions[sid]) < max

Restrict(f, keep) == [x \in (DOMAIN f) \cap keep |-> f[x]]

\* variant of cleanupSession that stops the subprocess and keeps the session
\* registered (sensitivity of C9)
CleanupSession_KeepingEntry(ids, cause) ==
    LET gone == ids \cap DOMAIN m_sessions
    IN  /\ UNCHANGED <<m_sessions, m_sessionClients>>
        /\ procs' = [x \in DOMAIN procs |->
                        IF x \in gone THEN "NotRunning" ELSE procs[x]]
        /\ history' = [x \in DOMAIN history |->
                        IF x \in gone
                        THEN [history[x] EXCEPT !.destroyed = @ + 1,
                                                !.cause = cause]
                        ELSE history[x]]

\* MCPGateway::cleanupSession for every id of ids; cause is the log line of
\* the caller
MCPGateway_cleanupSession(ids, cause) ==
    LET gone == ids \cap DOMAIN m_sessions
    IN  /\ m_sessions' = Restrict(m_sessions, (DOMAIN m_sessions) \ gone)
        /\ m_sessionClients' =
               Restrict(m_sessionClients, (DOMAIN m_sessionClients) \ gone)
        /\ procs' = [x \in DOMAIN procs |->
                        IF x \in gone THEN "NotRunning" ELSE procs[x]]
        /\ history' = [x \in DOMAIN history |->
                        IF x \in gone
                        THEN [history[x] EXCEPT !.destroyed = @ + 1,
                                                !.cause = cause]
                        ELSE history[x]]

\* MCPSession::isServerRunning
MCPSession_isServerRunning(sid) == procs[sid] = "Running"

-----------------------------------------------------------------------------
(* MCPGateway: connections *)

MCPGateway_onNewConnection(client) ==
    /\ client \notin m_clients
    /\ m_clients' = m_clients \cup {client}
    /\ lastOp' = Op("connect", client, "", NoId, "", "none", 0, FALSE)
    /\ UNCHANGED <<m_sessions, m_sessionClients, m_sessionCounter, procs,
                   history, regVars>>
    /\ UNCHANGED outsideGateway

\* variant of onClientDisconnected that destroys the sessions of every
\* socket (sensitivity of C11)
OnClientDisconnected_AllSessions(client) ==
    /\ client \in m_clients
    /\ MCPGateway_cleanupSession(DOMAIN m_sessionClients, "disconnect")
    /\ m_clients' = m_clients \ {client}
    /\ lastOp' = Op("disconnect", client, "", NoId, "", "none", 0, FALSE)
    /\ UNCHANGED <<m_sessionCounter, regVars>>
    /\ UNCHANGED outsideGateway

MCPGateway_onClientDisconnected(client) ==
    /\ client \in m_clients
    /\ LET sessionsToRemove ==
               {sid \in DOMAIN m_sessionClients : m_sessionClients[sid] = client}
       IN  MCPGateway_cleanupSession(sessionsToRemove, "disconnect")
    /\ m_clients' = m_clients \ {client}
    /\ lastOp' = Op("disconnect", client, "", NoId, "", "none", 0, FALSE)
    /\ UNCHANGED <<m_sessionCounter, regVars>>
    /\ UNCHANGED outsideGateway

-----------------------------------------------------------------------------
(* MCPGateway: create-session *)

\* variant of CreateSessionCode that starts a session for a server name the
\* registry does not hold (sensitivity of C21)
CreateSessionCode_AnyServer(params, token, startOk) ==
    IF params.serverType = "" THEN -32602
    ELSE IF params.userId # "" /\ token = "" THEN -32001
    ELSE IF params.userId = "" /\ DOMAIN params.credentials = {} THEN -32602
    ELSE IF ~startOk THEN -32603
    ELSE 0

\* the error create-session answers with, 0 when the session is created.
\* params.credentials is params["credentials"].toObject(): the empty object
\* when the member is missing or no object
CreateSessionCode(params, token, startOk) ==
    IF params.serverType = "" THEN -32602
    ELSE IF params.userId # "" /\ token = "" THEN -32001
    ELSE IF params.userId = "" /\ DOMAIN params.credentials = {} THEN -32602
    ELSE IF params.serverType \notin DOMAIN m_servers THEN -32602
    ELSE IF ~startOk THEN -32603
    ELSE 0

\* the credentials object handed to the MCPSession constructor: rebuilt
\* around the token of the user, or the object of the request
SessionCredentials(params, token) ==
    IF params.userId # ""
    THEN IF params.serverType \in {"azure", "Azure DevOps"}
         THEN [k \in {"pat"} |-> token]
         ELSE [k \in {"token"} |-> token]
    ELSE params.credentials

\* reached generateSessionId: every check before the start passed
CreateSessionStarts(params, token) ==
    CreateSessionCode(params, token, FALSE) = -32603

MCPGateway_handleCreateSession(client, id, params, token, permissionsList, startOk, ids) ==
    /\ client \in m_clients
    /\ m_sessionCounter < Len(ids)
    /\ LET code      == CreateSessionCode(params, token, startOk)
           sessionId == ids[m_sessionCounter + 1]
           clientApp == IF params.clientApp = "" THEN "Unknown"
                        ELSE params.clientApp
           perms     == IF params.userId # "" THEN permissionsList ELSE {}
           session   == MCPSession_initializeServerProtocol(
                            NewSession(params.serverType, params.userId, perms,
                                       SessionCredentials(params, token)),
                            TRUE)
       IN  /\ m_sessionCounter' =
                 IF CreateSessionStarts(params, token)
                 THEN m_sessionCounter + 1 ELSE m_sessionCounter
           /\ registered_clients' =
                 IF CreateSessionStarts(params, token) /\ params.userId # ""
                 THEN registered_clients \cup {<<params.userId, clientApp>>}
                 ELSE registered_clients
           /\ IF code = 0
              THEN /\ m_sessions' = MapSet(m_sessions, sessionId, session)
                   /\ m_sessionClients' =
                          MapSet(m_sessionClients, sessionId, client)
                   /\ procs' = MapSet(procs, sessionId, "Running")
                   /\ history' = MapSet(history, sessionId,
                          [serverType |-> params.serverType, client |-> client,
                           cause |-> "", destroyed |-> 0])
                   /\ lastOp' = Op("create-session", client, sessionId, id, "",
                                   "result", 0, FALSE)
              ELSE /\ UNCHANGED <<m_sessions, m_sessionClients, procs, history>>
                   /\ lastOp' = Op("create-session", client, "", id, "",
                                   "error", code, FALSE)
    /\ UNCHANGED <<m_clients, m_servers, m_tools, m_permissions,
                   m_globalPermissions>>
    /\ UNCHANGED outsideGateway

-----------------------------------------------------------------------------
(* MCPGateway: tools/call, tools/list, destroy-session *)

\* variant of the ownership checks without the comparison of the sockets
\* (sensitivity of C3)
OwnershipCode_AnySocket(client, sessionId) ==
    IF sessionId = "" THEN -32602
    ELSE IF sessionId \notin DOMAIN m_sessions THEN -32602
    ELSE 0

\* the ownership checks shared by tools/call, tools/list and destroy-session:
\* the error code, 0 when the caller owns the session
OwnershipCode(client, sessionId) ==
    IF sessionId = "" THEN -32602
    ELSE IF sessionId \notin DOMAIN m_sessions THEN -32602
    ELSE IF m_sessionClients[sessionId] # client THEN -32603
    ELSE 0

\* variant of the authorization checks that applies the category check to
\* allowlisted tools as well (sensitivity of C4)
AuthorizationCode_CategoryAlways(sessionId, toolName) ==
    LET session    == m_sessions[sessionId]
        serverType == session.serverType
        server     == serverType \in DOMAIN m_servers
    IN  IF server /\ ~MCPServerInstance_isToolEnabled(serverType, toolName)
        THEN -32001
        ELSE IF MCPSession_hasUserSpecificPermissions(session)
                /\ MCPSession_hasPermission(session, BLOCK_ALL)
        THEN -32005
        ELSE IF MCPSession_hasUserSpecificPermissions(session)
                /\ ~MCPSession_hasPermission(session, toolName)
        THEN -32004
        ELSE IF server
                /\ ~MCPServerInstance_checkToolPermissions(serverType, toolName)
             THEN -32003
             ELSE 0

\* the authorization checks of handleToolCall for a session the caller owns:
\* the error code, 0 when the call is forwarded
AuthorizationCode(sessionId, toolName) ==
    LET session    == m_sessions[sessionId]
        serverType == session.serverType
        server     == serverType \in DOMAIN m_servers
    IN  IF server /\ ~MCPServerInstance_isToolEnabled(serverType, toolName)
        THEN -32001
        ELSE IF MCPSession_hasUserSpecificPermissions(session)
        THEN IF MCPSession_hasPermission(session, BLOCK_ALL) THEN -32005
             ELSE IF ~MCPSession_hasPermission(session, toolName) THEN -32004
             ELSE 0
        ELSE IF server
                /\ ~MCPServerInstance_checkToolPermissions(serverType, toolName)
             THEN -32003
             ELSE 0

ToolCallCode(client, params) ==
    IF OwnershipCode(client, params.sessionId) # 0
    THEN OwnershipCode(client, params.sessionId)
    ELSE AuthorizationCode(params.sessionId, params.name)

\* session->sendRequest(mcpRequest) of the forwarding handlers
ForwardToSession(sessionId, mcpRequest) ==
    m_sessions' = [m_sessions EXCEPT ![sessionId] =
        MCPSession_sendRequest(@, MCPSession_isServerRunning(sessionId),
                               mcpRequest)]

MCPGateway_handleToolCall(client, id, params) ==
    /\ client \in m_clients
    /\ LET code == ToolCallCode(client, params)
       IN  IF code # 0
           THEN /\ lastOp' = [Op("tools/call", client, params.sessionId, id,
                                 params.name, "error", code, FALSE)
                               EXCEPT !.arguments = params.arguments]
                /\ UNCHANGED m_sessions
           ELSE /\ ForwardToSession(params.sessionId,
                       Msg(id, "tools/call", params.name, params.arguments))
                /\ lastOp' = [Op("tools/call", client, params.sessionId, id,
                                 params.name, "none", 0, TRUE)
                               EXCEPT !.arguments = params.arguments]
    /\ UNCHANGED <<m_clients, m_sessionClients, m_sessionCounter, procs,
                   history, regVars>>
    /\ UNCHANGED outsideGateway

MCPGateway_handleToolsList(client, id, params) ==
    /\ client \in m_clients
    /\ LET code == OwnershipCode(client, params.sessionId)
       IN  IF code # 0
           THEN /\ lastOp' = Op("tools/list", client, params.sessionId, id, "",
                                "error", code, FALSE)
                /\ UNCHANGED m_sessions
           ELSE /\ ForwardToSession(params.sessionId,
                       Msg(id, "tools/list", "", ""))
                /\ lastOp' = Op("tools/list", client, params.sessionId, id, "",
                                "none", 0, TRUE)
    /\ UNCHANGED <<m_clients, m_sessionClients, m_sessionCounter, procs,
                   history, regVars>>
    /\ UNCHANGED outsideGateway

MCPGateway_handleDestroySession(client, id, params) ==
    /\ client \in m_clients
    /\ LET code == OwnershipCode(client, params.sessionId)
       IN  IF code # 0
           THEN /\ lastOp' = Op("destroy-session", client, params.sessionId, id,
                                "", "error", code, FALSE)
                /\ UNCHANGED <<m_sessions, m_sessionClients, procs, history>>
           ELSE /\ MCPGateway_cleanupSession({params.sessionId},
                                             "destroy-session")
                /\ lastOp' = Op("destroy-session", client, params.sessionId, id,
                                "", "result", 0, FALSE)
    /\ UNCHANGED <<m_clients, m_sessionCounter, regVars>>
    /\ UNCHANGED outsideGateway

-----------------------------------------------------------------------------
(* MCPSession: events of the subprocess *)

\* the switch of MCPSession::onProcessError
ErrorMsg(error) ==
    CASE error = "FailedToStart" -> "Failed to start server process"
      [] error = "Crashed"       -> "Server process crashed"
      [] error = "Timedout"      -> "Server process timed out"
      [] OTHER                   -> "Unknown server error"

\* MCPGateway::onSessionResponse / onSessionServerError: the socket written to
SessionClient(sid) ==
    IF sid \in DOMAIN m_sessionClients /\ m_sessionClients[sid] \in m_clients
    THEN m_sessionClients[sid] ELSE ""

\* MCPSession::onProcessReadyRead for one line, a JSON object with that id
MCPSession_onProcessReadyRead(sid, id) ==
    /\ sid \in DOMAIN m_sessions
    /\ MCPSession_isServerRunning(sid)
    /\ IF ~m_sessions[sid].m_initialized
          /\ ToInt(id) = m_sessions[sid].m_initRequestId
       THEN /\ m_sessions' = [m_sessions EXCEPT ![sid] =
                   HandleInitializeResponse(@, MCPSession_isServerRunning(sid))]
            /\ lastOp' = Op("initialize-response", "", sid, id, "", "none", 0,
                            FALSE)
       ELSE /\ UNCHANGED m_sessions
            /\ lastOp' = Op("response", SessionClient(sid), sid, id, "",
                            IF SessionClient(sid) # "" THEN "response"
                            ELSE "none", 0, FALSE)
    /\ UNCHANGED <<m_clients, m_sessionClients, m_sessionCounter, procs,
                   history, regVars>>
    /\ UNCHANGED outsideGateway

\* MCPGateway::onSessionServerError: notifies the owner, changes no table
MCPGateway_onSessionServerError(sid, error) ==
    /\ lastOp' = Op("serverError", SessionClient(sid), sid, NoId, error,
                    IF SessionClient(sid) # "" THEN "session-error" ELSE "none",
                    0, FALSE)
    /\ UNCHANGED <<m_clients, m_sessions, m_sessionClients, m_sessionCounter,
                   history, regVars>>

\* the subprocess of a registered session exits by itself.  For a crash
\* QProcess raises errorOccurred(Crashed) and then finished(CrashExit):
\* onProcessError and onProcessFinished both emit serverError.  A normal
\* exit emits serverStopped alone, which the gateway does not listen to.
MCPSession_onProcessFinished(sid, exitStatus) ==
    /\ sid \in DOMAIN m_sessions
    /\ MCPSession_isServerRunning(sid)
    /\ procs' = [procs EXCEPT ![sid] = "NotRunning"]
    /\ IF exitStatus = "CrashExit"
       THEN MCPGateway_onSessionServerError(sid, ErrorMsg("Crashed"))
       ELSE /\ lastOp' = Op("serverStopped", "", sid, NoId, "", "none", 0,
                            FALSE)
            /\ UNCHANGED <<m_clients, m_sessions, m_sessionClients,
                           m_sessionCounter, history, regVars>>
    /\ UNCHANGED outsideGateway

\* MCPSession::onProcessError for an error that leaves the process running
\* (a failed write or read)
MCPSession_onProcessError(sid, error) ==
    /\ sid \in DOMAIN m_sessions
    /\ MCPSession_isServerRunning(sid)
    /\ MCPGateway_onSessionServerError(sid, ErrorMsg(error))
    /\ UNCHANGED procs
    /\ UNCHANGED outsideGateway

-----------------------------------------------------------------------------
(* MCPServerManager / MCPServerInstance: permissions and tools *)

\* variant of onGlobalPermissionsChanged that destroys the sessions of one
\* server only (sensitivity of C8)
OnGlobalPermissionsChanged_OneServer ==
    MCPGateway_cleanupSession(
        {sid \in DOMAIN m_sessions : m_sessions[sid].serverType = "S"},
        "global")

\* MCPGateway::onGlobalPermissionsChanged, the slot of globalPermissionsChanged
MCPGateway_onGlobalPermissionsChanged ==
    MCPGateway_cleanupSession(DOMAIN m_sessions, "global")

\* MCPGateway::onServerPermissionsChanged, the slot of
\* MCPServerManager::serverPermissionsChanged(serverName)
MCPGateway_onServerPermissionsChanged(serverName) ==
    MCPGateway_cleanupSession(
        {sid \in DOMAIN m_sessions : m_sessions[sid].serverType = serverName},
        "server")

\* MCPServerManager::setGlobalPermission: stores the default and emits
\* globalPermissionsChanged, which the gateway handles at once
MCPServerManager_setGlobalPermission(category, enabled) ==
    /\ m_globalPermissions' = MapSet(m_globalPermissions, category, enabled)
    /\ MCPGateway_onGlobalPermissionsChanged
    /\ lastOp' = [Op("setGlobalPermission", "", "", NoId, category, "none", 0,
                      FALSE)
                      EXCEPT !.category = category, !.enabled = enabled]
    /\ UNCHANGED <<m_clients, m_sessionCounter, registered_clients, m_servers,
                   m_tools, m_permissions>>
    /\ UNCHANGED outsideGateway

\* MCPServerInstance::setPermission: stores the override, emits nothing
MCPServerInstance_setPermission(server, category, enabled) ==
    /\ server \in DOMAIN m_servers
    /\ m_permissions' = [m_permissions EXCEPT ![server] =
                            MapSet(@, category, enabled)]
    /\ lastOp' = [Op("setPermission", "", "", NoId, server, "none", 0, FALSE)
                      EXCEPT !.category = category, !.enabled = enabled]
    /\ UNCHANGED <<gwVars, registered_clients, m_servers, m_tools,
                   m_globalPermissions>>
    /\ UNCHANGED outsideGateway

\* MCPServerInstance::clearPermission: removes the override, emits nothing
MCPServerInstance_clearPermission(server, category) ==
    /\ server \in DOMAIN m_servers
    /\ m_permissions' = [m_permissions EXCEPT ![server] =
                            MapRemove(@, category)]
    /\ lastOp' = [Op("clearPermission", "", "", NoId, server, "none", 0,
                      FALSE)
                      EXCEPT !.category = category]
    /\ UNCHANGED <<gwVars, registered_clients, m_servers, m_tools,
                   m_globalPermissions>>
    /\ UNCHANGED outsideGateway

\* MCPServerInstance::setToolEnabled: the first descriptor with that name
MCPServerInstance_setToolEnabled(server, toolName, enabled) ==
    /\ server \in DOMAIN m_servers
    /\ LET i == FindTool(m_tools[server], toolName)
       IN  m_tools' = IF i # 0
                      THEN [m_tools EXCEPT ![server][i].enabled = enabled]
                      ELSE m_tools
    /\ lastOp' = Op("setToolEnabled", "", "", NoId, toolName, "none", 0, FALSE)
    /\ UNCHANGED <<gwVars, registered_clients, m_servers, m_permissions,
                   m_globalPermissions>>
    /\ UNCHANGED outsideGateway

\* MCPServerInstance::parseToolsListResponse: toolsArray is result.tools, a
\* sequence of [name, categories]; every descriptor starts enabled
MCPServerInstance_parseToolsListResponse(server, toolsArray) ==
    /\ server \in DOMAIN m_servers
    /\ m_tools' = [m_tools EXCEPT ![server] =
           [i \in 1..Len(toolsArray) |->
               ToolInfo(toolsArray[i].name, TRUE, toolsArray[i].categories)]]
    /\ lastOp' = Op("toolsChanged", "", "", NoId, server, "none", 0, FALSE)
    /\ UNCHANGED <<gwVars, registered_clients, m_servers, m_permissions,
                   m_globalPermissions>>
    /\ UNCHANGED outsideGateway

\* a call of MCPServerInstance::checkToolPermissions; nothing is changed
CheckToolPermissions(server, toolName) ==
    /\ server \in DOMAIN m_servers
    /\ lastOp' = [Op("checkToolPermissions", "", "", NoId, toolName, "none", 0,
                      FALSE)
                      EXCEPT !.category = server,
                             !.result = MCPServerInstance_checkToolPermissions(
                                            server, toolName)]
    /\ UNCHANGED <<gwVars, regVars>>
    /\ UNCHANGED outsideGateway

-----------------------------------------------------------------------------
(* Keystore: the encrypted credential file.  The store is initialized: *)
(* initialize() has loaded or generated the master key                 *)

\* the decrypted JSON document.  Root-level service objects are kept in
\* flat; the reserved root keys users, shared and version have their own
\* fields, with a flag for data.contains(...)
EmptyData ==
    [flat |-> EmptyMap, hasUsers |-> FALSE, users |-> EmptyMap,
     hasShared |-> FALSE, shared |-> EmptyMap, version |-> ""]

\* QJsonObject::value(k).toObject(): the empty object when k is absent
ObjectAt(obj, k) == IF k \in DOMAIN obj THEN obj[k] ELSE EmptyMap

\* QJsonDocument::toJson / QJsonDocument::fromJson
ToJson(data) == <<"json", data>>
IsJsonObject(bytes) == Len(bytes) = 2 /\ bytes[1] = "json"

FernetVersion == 128
FernetMinSize == 73
AesBlockSize == 16
NoBytes ==
    [version |-> 0, size |-> 0, ts |-> 0, iv |-> 0, ct |-> <<>>, hmac |-> <<>>]

\* QDateTime::currentSecsSinceEpoch() at the time of encrypt
CurrentSecsSinceEpoch == 1

\* AES-128-CBC under the encryption half of the master key, and HMAC-SHA256
\* under the signing half over version | timestamp | iv | ciphertext
AesEncrypt(iv, plaintext) == <<"aes", iv, plaintext>>
AesDecrypt(iv, ct) ==
    IF Len(ct) = 3 /\ ct[1] = "aes" /\ ct[2] = iv THEN ct[3] ELSE <<>>
HmacSha256(version, ts, iv, ct) == <<"hmac", version, ts, iv, ct>>

\* the size of a token: version, timestamp, IV, the PKCS#7-padded
\* ciphertext and the HMAC
TokenSize(plaintext) ==
    1 + 8 + 16 + AesBlockSize * (Len(plaintext) \div AesBlockSize + 1) + 32

\* Keystore::encrypt; iv is the value RAND_bytes draws, ok is FALSE when
\* RAND_bytes or a cipher call fails.
Keystore_encrypt(plaintext, iv, ok) ==
    IF ~ok THEN NoBytes
    ELSE [version |-> FernetVersion,
          size    |-> TokenSize(plaintext),
          ts      |-> CurrentSecsSinceEpoch,
          iv      |-> iv,
          ct      |-> AesEncrypt(iv, plaintext),
          hmac    |-> HmacSha256(FernetVersion, CurrentSecsSinceEpoch, iv,
                                 AesEncrypt(iv, plaintext))]

\* Keystore::decrypt: the plaintext, <<>> on failure
Keystore_decrypt(token) ==
    IF token.size < FernetMinSize THEN <<>>
    ELSE IF token.version # FernetVersion THEN <<>>
    ELSE IF token.hmac
              # HmacSha256(token.version, token.ts, token.iv, token.ct)
    THEN <<>>
    ELSE AesDecrypt(token.iv, token.ct)

NoFile == [bytes |-> NoBytes, exists |-> FALSE]

\* Keystore::loadEncryptedData: the empty object for a missing or empty
\* file, a token that does not decrypt, and a plaintext that is no object
Keystore_loadEncryptedData ==
    IF ~keystoreFile.exists THEN EmptyData
    ELSE IF keystoreFile.bytes.size = 0 THEN EmptyData
    ELSE IF Keystore_decrypt(keystoreFile.bytes) = <<>> THEN EmptyData
    ELSE IF ~IsJsonObject(Keystore_decrypt(keystoreFile.bytes)) THEN EmptyData
    ELSE Keystore_decrypt(keystoreFile.bytes)[2]

\* Keystore::saveEncryptedData: TRUE and the file written, FALSE and the
\* file as it was when encrypt returns nothing
SaveOk(data, iv, ok) == Keystore_encrypt(ToJson(data), iv, ok).size # 0

Keystore_saveEncryptedData(data, iv, ok) ==
    keystoreFile' =
        IF SaveOk(data, iv, ok)
        THEN [bytes |-> Keystore_encrypt(ToJson(data), iv, ok), exists |-> TRUE]
        ELSE keystoreFile

KsOp(op, userId, service, key, value, encOk, saved, result) ==
    [userId |-> userId, op |-> op, result |-> result, service |-> service,
     key |-> key, value |-> value, encOk |-> encOk, saved |-> saved]

\* Keystore::setCredential
Keystore_setCredential(service, key, value, iv, encOk) ==
    LET data       == Keystore_loadEncryptedData
        serviceObj == ObjectAt(data.flat, service)
        newData    == [data EXCEPT !.flat =
                          MapSet(@, service, MapSet(serviceObj, key, value))]
    IN  /\ Keystore_saveEncryptedData(newData, iv, encOk)
        /\ ksLast' = KsOp("setCredential", "", service, key, value, encOk,
                          TRUE, IF SaveOk(newData, iv, encOk) THEN 1 ELSE 0)
        /\ UNCHANGED outsideKeystore

\* Keystore::deleteCredential
Keystore_deleteCredential(service, key, iv, encOk) ==
    LET data       == Keystore_loadEncryptedData
        found      == service \in DOMAIN data.flat
                      /\ key \in DOMAIN data.flat[service]
        serviceObj == MapRemove(ObjectAt(data.flat, service), key)
        newData    == [data EXCEPT !.flat =
                          IF serviceObj = EmptyMap THEN MapRemove(@, service)
                          ELSE MapSet(@, service, serviceObj)]
    IN  /\ IF found THEN Keystore_saveEncryptedData(newData, iv, encOk)
           ELSE UNCHANGED keystoreFile
        /\ ksLast' = KsOp("deleteCredential", "", service, key, "", encOk,
                          found,
                          IF found /\ SaveOk(newData, iv, encOk) THEN 1 ELSE 0)
        /\ UNCHANGED outsideKeystore

\* Keystore::clearService
Keystore_clearService(service, iv, encOk) ==
    LET data    == Keystore_loadEncryptedData
        found   == service \in DOMAIN data.flat
        newData == [data EXCEPT !.flat = MapRemove(@, service)]
    IN  /\ IF found THEN Keystore_saveEncryptedData(newData, iv, encOk)
           ELSE UNCHANGED keystoreFile
        /\ ksLast' = KsOp("clearService", "", service, "", "", encOk, found,
                          IF found /\ SaveOk(newData, iv, encOk) THEN 1 ELSE 0)
        /\ UNCHANGED outsideKeystore

\* Keystore::setUserCredential
Keystore_setUserCredential(userId, service, key, value, iv, encOk) ==
    LET data       == Keystore_loadEncryptedData
        users      == data.users
        user       == ObjectAt(users, userId)
        serviceObj == ObjectAt(user, service)
        newData    == [data EXCEPT
                          !.hasUsers = TRUE,
                          !.users = MapSet(users, userId,
                              MapSet(user, service,
                                     MapSet(serviceObj, key, value)))]
    IN  /\ Keystore_saveEncryptedData(newData, iv, encOk)
        /\ ksLast' = KsOp("setUserCredential", userId, service, key, value,
                          encOk, TRUE,
                          IF SaveOk(newData, iv, encOk) THEN 1 ELSE 0)
        /\ UNCHANGED outsideKeystore

\* Keystore::deleteUserCredential
Keystore_deleteUserCredential(userId, service, key, iv, encOk) ==
    LET data       == Keystore_loadEncryptedData
        users      == data.users
        user       == ObjectAt(users, userId)
        found      == /\ data.hasUsers
                      /\ userId \in DOMAIN users
                      /\ service \in DOMAIN user
                      /\ key \in DOMAIN user[service]
        serviceObj == MapRemove(ObjectAt(user, service), key)
        newUser    == IF serviceObj = EmptyMap THEN MapRemove(user, service)
                      ELSE MapSet(user, service, serviceObj)
        newUsers   == IF newUser = EmptyMap THEN MapRemove(users, userId)
                      ELSE MapSet(users, userId, newUser)
        newData    == [data EXCEPT !.hasUsers = (newUsers # EmptyMap),
                                   !.users = newUsers]
    IN  /\ IF found THEN Keystore_saveEncryptedData(newData, iv, encOk)
           ELSE UNCHANGED keystoreFile
        /\ ksLast' = KsOp("deleteUserCredential", userId, service, key, "",
                          encOk, found,
                          IF found /\ SaveOk(newData, iv, encOk) THEN 1 ELSE 0)
        /\ UNCHANGED outsideKeystore

\* Keystore::migrateToUser: the number of root-level services moved; the
\* result of saveEncryptedData is not looked at
Keystore_migrateToUser(userId, iv, encOk) ==
    LET data     == Keystore_loadEncryptedData
        moved    == {s \in DOMAIN data.flat : data.flat[s] # EmptyMap}
        user     == ObjectAt(data.users, userId)
        newUser  == [s \in (DOMAIN user) \cup moved |->
                        IF s \in DOMAIN user THEN user[s] ELSE data.flat[s]]
        kept     == Restrict(data.flat, (DOMAIN data.flat) \ moved)
        newData  == IF userId # ""
                    THEN [data EXCEPT !.flat = kept,
                                      !.hasUsers = TRUE,
                                      !.users = MapSet(@, userId, newUser),
                                      !.version = "2.0"]
                    ELSE [data EXCEPT !.flat = kept,
                                      !.hasShared = TRUE,
                                      !.shared = Restrict(data.flat, moved),
                                      !.version = "2.0"]
    IN  /\ IF moved # {} THEN Keystore_saveEncryptedData(newData, iv, encOk)
           ELSE UNCHANGED keystoreFile
        /\ ksLast' = KsOp("migrateToUser", userId, "", "", "", encOk,
                          moved # {}, Cardinality(moved))
        /\ UNCHANGED outsideKeystore

\* variant of getUserCredential that looks into the shared namespace before
\* the namespace of the user (sensitivity of C12)
GetUserCredential_SharedFirst(userId, service, key, defaultValue) ==
    LET data == Keystore_loadEncryptedData
    IN  IF /\ data.hasShared
           /\ service \in DOMAIN data.shared
           /\ key \in DOMAIN data.shared[service]
        THEN data.shared[service][key]
        ELSE IF /\ data.hasUsers
                /\ userId \in DOMAIN data.users
                /\ service \in DOMAIN data.users[userId]
                /\ key \in DOMAIN data.users[userId][service]
        THEN data.users[userId][service][key]
        ELSE IF /\ service \in DOMAIN data.flat
                /\ key \in DOMAIN data.flat[service]
        THEN data.flat[service][key]
        ELSE defaultValue

\* Keystore::getUserCredential: the value returned
Keystore_getUserCredential(userId, service, key, defaultValue) ==
    LET data == Keystore_loadEncryptedData
    IN  IF /\ data.hasUsers
           /\ userId \in DOMAIN data.users
           /\ service \in DOMAIN data.users[userId]
           /\ key \in DOMAIN data.users[userId][service]
        THEN data.users[userId][service][key]
        ELSE IF /\ data.hasShared
                /\ service \in DOMAIN data.shared
                /\ key \in DOMAIN data.shared[service]
        THEN data.shared[service][key]
        ELSE IF /\ service \in DOMAIN data.flat
                /\ key \in DOMAIN data.flat[service]
        THEN data.flat[service][key]
        ELSE defaultValue

\* a call of Keystore::getUserCredential; the store is left as it is
LookupUserCredential(userId, service, key, defaultValue) ==
    /\ ksLast' = KsOp("getUserCredential", userId, service, key,
                      Keystore_getUserCredential(userId, service, key,
                                                 defaultValue),
                      TRUE, FALSE, 0)
    /\ UNCHANGED keystoreFile
    /\ UNCHANGED outsideKeystore

\* the credential file is damaged outside the store: its version byte is
\* changed, a byte of its HMAC is changed, or it is cut below the minimum
DamageFile(kind) ==
    /\ keystoreFile.exists
    /\ Keystore_decrypt(keystoreFile.bytes) # <<>>
    /\ keystoreFile' = [keystoreFile EXCEPT !.bytes =
           CASE kind = "version"  -> [@ EXCEPT !.version = 0]
             [] kind = "hmac"     -> [@ EXCEPT !.hmac = <<"damaged">>]
             [] kind = "truncate" -> [@ EXCEPT !.size = FernetMinSize - 1]]
    /\ ksLast' = KsOp("damage", "", "", "", kind, TRUE, FALSE, 0)
    /\ UNCHANGED outsideKeystore

-----------------------------------------------------------------------------
(* Keystore: the text of a token.  encrypt returns the token bytes in      *)
(* base64url without padding, decrypt decodes that text first.  A text is  *)
(* a sequence of character codes, a byte string a sequence of 0..255.      *)

\* the alphabet of QByteArray::Base64UrlEncoding: A-Z a-z 0-9 - _
B64Char(v) ==
    IF v < 26 THEN 65 + v
    ELSE IF v < 52 THEN 97 + (v - 26)
    ELSE IF v < 62 THEN 48 + (v - 52)
    ELSE IF v = 62 THEN 45
    ELSE 95

\* the 6-bit value of a character, -1 for a character outside the alphabet
B64Value(c) ==
    IF c >= 65 /\ c <= 90 THEN c - 65
    ELSE IF c >= 97 /\ c <= 122 THEN c - 97 + 26
    ELSE IF c >= 48 /\ c <= 57 THEN c - 48 + 52
    ELSE IF c = 45 THEN 62
    ELSE IF c = 95 THEN 63
    ELSE -1

IsB64Char(c) == B64Value(c) # -1

Pow2(k) == 2 ^ k

\* bit b (0 the first) of the bit string of a byte string, 0 past its end
ByteStreamBit(bytes, b) ==
    IF b \div 8 + 1 > Len(bytes) THEN 0
    ELSE (bytes[b \div 8 + 1] \div Pow2(7 - (b % 8))) % 2

\* QByteArray::toBase64(Base64UrlEncoding | OmitTrailingEquals): six bits
\* per character, the last character filled up with zero bits
ToBase64Url(bytes) ==
    [i \in 1..((8 * Len(bytes) + 5) \div 6) |->
        B64Char(  32 * ByteStreamBit(bytes, 6 * (i - 1))
                + 16 * ByteStreamBit(bytes, 6 * (i - 1) + 1)
                +  8 * ByteStreamBit(bytes, 6 * (i - 1) + 2)
                +  4 * ByteStreamBit(bytes, 6 * (i - 1) + 3)
                +  2 * ByteStreamBit(bytes, 6 * (i - 1) + 4)
                +      ByteStreamBit(bytes, 6 * (i - 1) + 5))]

\* bit b (0 the first) of the bit string of a sequence of 6-bit values
SextetStreamBit(values, b) ==
    (values[b \div 6 + 1] \div Pow2(5 - (b % 6))) % 2

\* QByteArray::fromBase64(Base64UrlEncoding | OmitTrailingEquals): a
\* character outside the alphabet is skipped, every full group of eight
\* bits gives a byte, the bits left over at the end are dropped
FromBase64Url(text) ==
    LET valid  == SelectSeq(text, IsB64Char)
        values == [i \in 1..Len(valid) |-> B64Value(valid[i])]
    IN  [j \in 1..((6 * Len(valid)) \div 8) |->
              128 * SextetStreamBit(values, 8 * (j - 1))
            +  64 * SextetStreamBit(values, 8 * (j - 1) + 1)
            +  32 * SextetStreamBit(values, 8 * (j - 1) + 2)
            +  16 * SextetStreamBit(values, 8 * (j - 1) + 3)
            +   8 * SextetStreamBit(values, 8 * (j - 1) + 4)
            +   4 * SextetStreamBit(values, 8 * (j - 1) + 5)
            +   2 * SextetStreamBit(values, 8 * (j - 1) + 6)
            +       SextetStreamBit(values, 8 * (j - 1) + 7)]

\* an 8-bit character with bit j (0 the lowest) inverted
FlipBit(c, j) ==
    IF (c \div Pow2(j)) % 2 = 1 THEN c - Pow2(j) ELSE c + Pow2(j)

\* qToBigEndian of the 64-bit timestamp; the clock reads less than 2^31
\* seconds, so the four high bytes are zero
TimestampBytes(ts) ==
    [i \in 1..8 |-> IF i <= 4 THEN 0 ELSE (ts \div Pow2(8 * (8 - i))) % 256]

\* the bytes of a token encrypt has built.  The 16 bytes of the IV are the
\* value RAND_bytes drew; the ciphertext and the HMAC are the outputs of
\* AES and SHA-256, of which the analysis fixes one byte value each
\* (image.ct, image.tag).
TokenBytes(token, image) ==
    <<token.version>>
        \o TimestampBytes(token.ts)
        \o [i \in 1..16 |-> token.iv]
        \o [i \in 1..(token.size - 57) |-> image.ct]
        \o [i \in 1..32 |-> image.tag]

\* the token a byte string is, seen against the token encrypt issued: a
\* part that has the bytes of the issued token is that part, a part with
\* other bytes is a timestamp, IV, ciphertext or HMAC never issued
ParseToken(bytes, issued, image) ==
    IF Len(bytes) < FernetMinSize
    THEN [NoBytes EXCEPT !.size = Len(bytes)]
    ELSE LET n == Len(bytes)
         IN  [version |-> bytes[1],
              size    |-> n,
              ts      |-> IF SubSeq(bytes, 2, 9) = TimestampBytes(issued.ts)
                          THEN issued.ts ELSE -1,
              iv      |-> IF SubSeq(bytes, 10, 25) = [i \in 1..16 |-> issued.iv]
                          THEN issued.iv ELSE -1,
              ct      |-> IF /\ n = issued.size
                             /\ SubSeq(bytes, 26, n - 32)
                                  = [i \in 1..(n - 57) |-> image.ct]
                          THEN issued.ct ELSE <<"other ciphertext">>,
              hmac    |-> IF SubSeq(bytes, n - 31, n)
                               = [i \in 1..32 |-> image.tag]
                          THEN issued.hmac ELSE <<"other hmac">>]

\* Keystore::encrypt as its caller sees it: the text of the token, the
\* empty byte array on failure
EncodedToken(token, image) ==
    IF token.size = 0 THEN <<>> ELSE ToBase64Url(TokenBytes(token, image))

\* Keystore::decrypt of a text, under the key that issued the token
DecryptEncoded(encoded, issued, image) ==
    Keystore_decrypt(ParseToken(FromBase64Url(encoded), issued, image))

\* Keystore::loadEncryptedData, the caller of decrypt: the test by which it
\* takes a result for a failure
DecryptFailed(decryptedData) == decryptedData = <<>>

CipherOp(op, plaintext, token, image, encoded, out) ==
    [op |-> op, token |-> token, plaintext |-> plaintext, image |-> image,
     encoded |-> encoded, out |-> out]

\* a call of Keystore::encrypt
Cipher_encrypt(plaintext, iv, ok, image) ==
    /\ cipherLast' = CipherOp("encrypt", plaintext,
                              Keystore_encrypt(plaintext, iv, ok), image,
                              EncodedToken(Keystore_encrypt(plaintext, iv, ok),
                                           image),
                              <<>>)
    /\ UNCHANGED outsideCipher

\* a call of Keystore::decrypt with the text encrypt returned
Cipher_decrypt ==
    /\ cipherLast.op = "encrypt"
    /\ cipherLast.encoded # <<>>
    /\ cipherLast' = [cipherLast EXCEPT
           !.op = "decrypt",
           !.out = DecryptEncoded(cipherLast.encoded, cipherLast.token,
                                  cipherLast.image)]
    /\ UNCHANGED outsideCipher

\* bit j of character i of the stored text is inverted, then
\* Keystore::decrypt is called with the text
Cipher_decryptFlipped(i, j) ==
    /\ cipherLast.op = "encrypt"
    /\ i \in 1..Len(cipherLast.encoded)
    /\ LET flipped == [cipherLast.encoded EXCEPT ![i] = FlipBit(@, j)]
       IN  cipherLast' = [cipherLast EXCEPT
               !.op = "flip",
               !.encoded = flipped,
               !.out = DecryptEncoded(flipped, cipherLast.token,
                                      cipherLast.image)]
    /\ UNCHANGED outsideCipher

-----------------------------------------------------------------------------
(* MCPServerInstance: the life cycle of the supervised process.  A handler *)
(* is a function from the supervisor before the call to the supervisor    *)
(* after it; the field last is the record of the call that ran last.      *)

m_maxRestarts == 3

\* the record of a call: the statuses setStatus has set, the crashed()
\* signals emitted, the restart timers scheduled, what was done to the
\* QProcess, the counter after the increment of restart(), how far start()
\* came, whether a process that stop() had signalled has exited, and the
\* statuses set, crashed() signals emitted and timers scheduled by the
\* handlers of that exit, the lines emitted with outputReceived, and the
\* lines read from the standard output
Call(op, from) ==
    [op |-> op, from |-> from, trace |-> <<>>, crashed |-> 0, scheduled |-> 0,
     procOps |-> <<>>, incremented |-> 0, attempt |-> "none",
     stopExit |-> FALSE, exitTrace |-> <<>>, exitCrashed |-> 0,
     exitScheduled |-> 0, output |-> <<>>, input |-> <<>>]

\* the supervisor after its constructor.  process is QProcess::state();
\* signalled: stop() has sent terminate or kill to the process and the
\* process has not exited yet; timers: the pending single-shot restart
\* timers; autoRestarts: the restarts timers have performed since the last
\* call of start(), stop() or restart() from outside; stdin: the messages
\* written to the process that was started last.
NewInstance(autostart) ==
    [m_initialized |-> FALSE, stdin |-> <<>>, m_status |-> "Stopped",
     m_restartCount |-> 0,
     m_intentionalStop |-> FALSE, m_autoStart |-> autostart,
     m_pendingToolsRefresh |-> FALSE, process |-> "NotRunning",
     signalled |-> FALSE, timers |-> 0, autoRestarts |-> 0,
     last |-> Call("init", "Stopped")]

\* MCPServerInstance::setStatus
MCPServerInstance_setStatus(x, status) ==
    IF x.m_status = status THEN x
    ELSE [x EXCEPT !.m_status = status, !.last.trace = Append(@, status)]

\* MCPServerInstance::onProcessStarted
MCPServerInstance_onProcessStarted(x) ==
    [MCPServerInstance_setStatus(x, "Running") EXCEPT !.m_restartCount = 0]

\* MCPServerInstance::onProcessFinished
MCPServerInstance_onProcessFinished(x0, exitStatus) ==
    LET x == [x0 EXCEPT !.m_initialized = FALSE,
                        !.m_pendingToolsRefresh = FALSE]
    IN  IF x.m_intentionalStop THEN MCPServerInstance_setStatus(x, "Stopped")
        ELSE IF exitStatus = "CrashExit"
        THEN LET y == [MCPServerInstance_setStatus(x, "Crashed")
                          EXCEPT !.last.crashed = @ + 1]
             IN  IF y.m_autoStart /\ y.m_restartCount < m_maxRestarts
                 THEN [y EXCEPT !.timers = @ + 1, !.last.scheduled = @ + 1]
                 ELSE y
        ELSE MCPServerInstance_setStatus(x, "Stopped")

\* MCPServerInstance::onProcessError
MCPServerInstance_onProcessError(x, error) ==
    IF x.m_intentionalStop /\ error = "Crashed" THEN x
    ELSE MCPServerInstance_setStatus(x, "Error")

\* QProcess: the process has exited.  For a crash exit errorOccurred(Crashed)
\* is emitted before finished(exitCode, CrashExit).
QProcess_processDied(x, exitStatus) ==
    LET a == [x EXCEPT !.process = "NotRunning", !.signalled = FALSE]
        b == IF exitStatus = "CrashExit"
             THEN MCPServerInstance_onProcessError(a, "Crashed") ELSE a
        r == MCPServerInstance_onProcessFinished(b, exitStatus)
    IN  IF ~x.signalled THEN r
        ELSE [r EXCEPT
                 !.last.stopExit = TRUE,
                 !.last.exitTrace = SubSeq(r.last.trace, Len(x.last.trace) + 1,
                                           Len(r.last.trace)),
                 !.last.exitCrashed = r.last.crashed - x.last.crashed,
                 !.last.exitScheduled = r.last.scheduled - x.last.scheduled]

\* QProcess: the start of the process is confirmed (started() is emitted)
\* or has failed (errorOccurred(FailedToStart) is emitted)
QProcess_startupNotification(x, ok) ==
    IF ok
    THEN MCPServerInstance_onProcessStarted([x EXCEPT !.process = "Running"])
    ELSE MCPServerInstance_onProcessError(
             [x EXCEPT !.process = "NotRunning", !.signalled = FALSE],
             "FailedToStart")

\* QProcess::start followed by waitForStarted(5000).  start does nothing for
\* a process that is not NotRunning.  waitForStarted delivers the startup
\* notification when it arrives within the wait; on a timeout it returns
\* false and emits nothing; for a running process it returns true at once.
QProcess_startAndWait(x, startup) ==
    LET a == IF x.process = "NotRunning"
             THEN [x EXCEPT !.process = "Starting", !.stdin = <<>>,
                            !.last.procOps = Append(@, "start")]
             ELSE x
    IN  IF a.process # "Starting" THEN a
        ELSE IF startup = "started" THEN QProcess_startupNotification(a, TRUE)
        ELSE IF startup = "failed" THEN QProcess_startupNotification(a, FALSE)
        ELSE a

\* MCPServerInstance::start; in.portFree is the result of
\* checkPortAvailable, in.startup what waitForStarted sees.  The
\* configuration names a command.
MCPServerInstance_start(x, in) ==
    IF x.m_status \in {"Running", "Starting"}
    THEN [x EXCEPT !.last.attempt = "refused"]
    ELSE IF ~in.portFree
    THEN [MCPServerInstance_setStatus(x, "Error")
             EXCEPT !.last.attempt = "portInUse"]
    ELSE QProcess_startAndWait(
             [MCPServerInstance_setStatus(x, "Starting")
                 EXCEPT !.last.attempt = in.startup],
             in.startup)

\* terminate(), waitForFinished(5000), and kill() and waitForFinished(2000)
\* when the first wait fails.  in.exit: the process exits within the first
\* wait ("terminate"), within the second ("kill"), or within neither
\* ("none"); in.termStatus is the exit status after terminate().  A wait
\* for a process that is still starting waits for the startup notification
\* first.
QProcess_terminateAndWait(x, in) ==
    IF x.process = "NotRunning" THEN x
    ELSE LET a == [x EXCEPT !.signalled = TRUE,
                            !.last.procOps = Append(@, "terminate")]
             b == IF a.process = "Starting"
                  THEN IF in.startup = "started"
                       THEN QProcess_startupNotification(a, TRUE)
                       ELSE IF in.startup = "failed"
                       THEN QProcess_startupNotification(a, FALSE)
                       ELSE a
                  ELSE a
         IN  IF b.process = "NotRunning" THEN b
             ELSE IF b.process = "Running" /\ in.exit = "terminate"
             THEN QProcess_processDied(b, in.termStatus)
             ELSE LET c == [b EXCEPT !.last.procOps = Append(@, "kill")]
                  IN  IF c.process = "Running" /\ in.exit = "kill"
                      THEN QProcess_processDied(c, "CrashExit")
                      ELSE c

\* MCPServerInstance::stop
MCPServerInstance_stop(x, in) ==
    IF x.m_status \in {"Stopped", "Stopping"} THEN x
    ELSE LET a == [MCPServerInstance_setStatus(x, "Stopping")
                      EXCEPT !.m_initialized = FALSE,
                             !.m_pendingToolsRefresh = FALSE,
                             !.m_intentionalStop = TRUE]
             b == QProcess_terminateAndWait(a, in)
         IN  [MCPServerInstance_setStatus(b, "Stopped")
                 EXCEPT !.m_intentionalStop = FALSE]

\* variant of restart that never gives up (sensitivity of C19)
Restart_WithoutLimit(x, in) ==
    LET a == [x EXCEPT !.m_restartCount = @ + 1,
                       !.last.incremented = x.m_restartCount + 1]
    IN  MCPServerInstance_start(MCPServerInstance_stop(a, in), in)

\* MCPServerInstance::restart
MCPServerInstance_restart(x, in) ==
    LET a == [x EXCEPT !.m_restartCount = @ + 1,
                       !.last.incremented = x.m_restartCount + 1]
    IN  IF a.m_restartCount > m_maxRestarts
        THEN MCPServerInstance_setStatus(a, "Error")
        ELSE MCPServerInstance_start(MCPServerInstance_stop(a, in), in)

\* the supervisor at the beginning of a call; a call from outside ends the
\* row of automatic restarts
Begin(op, outside) ==
    [instance EXCEPT !.last = Call(op, instance.m_status),
                     !.autoRestarts = IF outside THEN 0 ELSE @]

\* what the handlers are told by the port check and the QProcess
Input(portFree, startup, exit, termStatus) ==
    [startup |-> startup, portFree |-> portFree, exit |-> exit,
     termStatus |-> termStatus]

\* start() called by the registry or the window
Call_start(in) ==
    /\ instance' = MCPServerInstance_start(Begin("start", TRUE), in)
    /\ UNCHANGED outsideSupervisor

\* stop() called by the registry or the window
Call_stop(in) ==
    /\ instance' = MCPServerInstance_stop(Begin("stop", TRUE), in)
    /\ UNCHANGED outsideSupervisor

\* restart() called by the registry or the window
Call_restart(in) ==
    /\ instance' = MCPServerInstance_restart(Begin("restart", TRUE), in)
    /\ UNCHANGED outsideSupervisor

\* a timer set by onProcessFinished fires: restart() runs
RestartTimer_timeout(in) ==
    /\ instance.timers > 0
    /\ LET a == [Begin("autoRestart", FALSE) EXCEPT !.timers = @ - 1]
           b == MCPServerInstance_restart(a, in)
       IN  instance' = [b EXCEPT !.autoRestarts =
                           IF b.last.attempt # "none" THEN @ + 1 ELSE @]
    /\ UNCHANGED outsideSupervisor

\* the event loop sees the exit of the running process
QProcess_finished(exitStatus) ==
    /\ instance.process = "Running"
    /\ instance' = QProcess_processDied(Begin("finished", FALSE), exitStatus)
    /\ UNCHANGED outsideSupervisor

\* the event loop sees the startup notification of a process whose start
\* waitForStarted did not see
QProcess_started(ok) ==
    /\ instance.process = "Starting"
    /\ instance' = QProcess_startupNotification(Begin("started", FALSE), ok)
    /\ UNCHANGED outsideSupervisor

-----------------------------------------------------------------------------
(* Initial state: the registry after loadConfig of a configuration that *)
(* lists the servers S and Q without permission overrides, the gateway   *)
(* after its constructor                                                 *)

Servers == {"S", "Q"}

\* no file at the path of the configuration
NoConfigFile == [kind |-> "missing"]

\* MCPServerManager::loadConfig: the safe defaults of the global permissions
GlobalDefaults ==
    [c \in Categories |-> c = "READ_REMOTE"]

ServerConfig(name) ==
    [name |-> name, command |-> "run", port |-> JsonNum(8765)]

InitState(autostart) ==
    /\ instance = NewInstance(autostart)
    /\ m_clients = {}
    /\ m_sessions = EmptyMap
    /\ m_sessionClients = EmptyMap
    /\ m_sessionCounter = 0
    /\ procs = EmptyMap
    /\ history = EmptyMap
    /\ registered_clients = {}
    /\ m_servers = [n \in Servers |-> ServerConfig(n)]
    /\ m_tools = [n \in Servers |-> <<>>]
    /\ m_permissions = [n \in Servers |-> EmptyMap]
    /\ m_globalPermissions = GlobalDefaults
    /\ lastOp = Op("init", "", "", NoId, "", "none", 0, FALSE)
    /\ keystoreFile = NoFile
    /\ ksLast = KsOp("init", "", "", "", "", TRUE, FALSE, 0)
    /\ cipherLast = CipherOp("init", <<>>, NoBytes, 0, <<>>, <<>>)
    /\ configFile = NoConfigFile
    /\ m_configPath = ""

\* config["autostart"].toBool(false) of a configuration without the key
Init == InitState(FALSE)

-----------------------------------------------------------------------------
(* Handshake analysis: one client, one session, requests with the ids 1 *)
(* and 999 sent before and after the subprocess answers                  *)

LegacyParams(serverType) ==
    [serverType |-> serverType, userId |-> "",
     credentials |-> [k \in {"API_TOKEN"} |-> "legacy"], clientApp |-> ""]

CallParams(sessionId, name, arguments) ==
    [name |-> name, arguments |-> arguments, sessionId |-> sessionId]

IdsH == {JsonNum(1), JsonNum(999)}
SessionIdsH == <<"s1">>

NextHandshake ==
    \/ MCPGateway_onNewConnection("c1")
    \/ \E startOk \in BOOLEAN :
          MCPGateway_handleCreateSession("c1", JsonNum(1), LegacyParams("S"),
                                         "", {}, startOk, SessionIdsH)
    \/ \E id \in IdsH :
          /\ ReqBudget("s1", MaxReqH)
          /\ MCPGateway_handleToolCall("c1", id, CallParams("s1", "t1", "a"))
    \/ \E id \in IdsH :
          /\ ReqBudget("s1", MaxReqH)
          /\ MCPGateway_handleToolsList("c1", id, CallParams("s1", "", ""))
    \/ \E id \in IdsH : MCPSession_onProcessReadyRead("s1", id)
    \/ \E st \in {"NormalExit", "CrashExit"} :
          MCPSession_onProcessFinished("s1", st)

SpecHandshake == Init /\ [][NextHandshake]_vars

-----------------------------------------------------------------------------
(* Claims about the handshake of a session *)

\* the request handleToolCall / handleToolsList hands to the session
ForwardedRequest(op) ==
    Msg(op.id, op.op, op.tool, op.arguments)

\* C1: every tools/call request passed to sendRequest of a running session
\* before the initialize response arrives is appended to the pending queue
\* and nothing is written; the handler of the initialize response writes the
\* initialized notification and then the whole queue, in submission order,
\* each request once, and leaves the queue empty.
C1_QueuedThenFlushedInOrder ==
    [][\A sid \in DOMAIN m_sessions :
        /\ ( /\ lastOp'.op = "tools/call"
             /\ lastOp'.fwd
             /\ lastOp'.sid = sid
             /\ MCPSession_isServerRunning(sid)
             /\ ~m_sessions[sid].m_initialized )
           => /\ m_sessions'[sid].m_pendingRequests =
                    Append(m_sessions[sid].m_pendingRequests,
                           ForwardedRequest(lastOp'))
              /\ m_sessions'[sid].stdin = m_sessions[sid].stdin
        /\ ( /\ lastOp'.op = "initialize-response"
             /\ lastOp'.sid = sid )
           => /\ m_sessions'[sid].stdin =
                    m_sessions[sid].stdin \o <<InitializedNotification>>
                        \o m_sessions[sid].m_pendingRequests
              /\ m_sessions'[sid].m_pendingRequests = <<>>
      ]_vars

\* C2: in every state, every line on the stdin of a session's subprocess
\* that is neither the initialize request nor the initialized notification
\* comes after the initialized notification, whatever its id is.
C2_NothingWrittenBeforeInitialized ==
    \A sid \in DOMAIN m_sessions :
        LET w == m_sessions[sid].stdin
        IN  \A i \in 1..Len(w) :
                w[i].method \notin {"initialize", "notifications/initialized"}
                => \E j \in 1..(i-1) : w[j] = InitializedNotification

-----------------------------------------------------------------------------
(* Authorization analysis: one client and its session on S, created either *)
(* with credentials (no allowlist) or for a user whose allowlist the       *)
(* credential store returns; tools are discovered, enabled and disabled,   *)
(* category permissions are overridden, cleared and changed globally       *)

UserParams(serverType, userId) ==
    [serverType |-> serverType, userId |-> userId, credentials |-> EmptyMap,
     clientApp |-> "app"]

ToolNamesA == {"t1", "t2"}
IdsA == {JsonNum(7), JsonStr("x")}
SessionIdsA == <<"s1">>
AllowlistsA == {{}, {"t1"}, {"t2"}, {BLOCK_ALL}, {BLOCK_ALL, "t1"}}
ToolsArraysA ==
    {<<[name |-> "t1", categories |-> <<"WRITE_REMOTE">>],
       [name |-> "t2", categories |-> <<"READ_REMOTE">>]>>,
     <<[name |-> "t1", categories |-> <<"READ_REMOTE", "WRITE_REMOTE">>]>>}
OverrideCategoriesA == {"READ_REMOTE", "WRITE_REMOTE"}
GlobalCategoriesA == {"WRITE_REMOTE"}

NextAuth ==
    \/ MCPGateway_onNewConnection("c1")
    \/ \E permissionsList \in AllowlistsA :
          \/ MCPGateway_handleCreateSession("c1", JsonNum(1),
                 UserParams("S", "u"), "tok", permissionsList, TRUE,
                 SessionIdsA)
          \/ /\ permissionsList = {}
             /\ MCPGateway_handleCreateSession("c1", JsonNum(1),
                    LegacyParams("S"), "", permissionsList, TRUE, SessionIdsA)
    \/ \E id \in IdsA, name \in ToolNamesA :
          /\ ReqBudget("s1", MaxReqA)
          /\ MCPGateway_handleToolCall("c1", id, CallParams("s1", name, "a"))
    \/ MCPSession_onProcessReadyRead("s1", JsonNum(InitRequestId))
    \/ \E toolsArray \in ToolsArraysA :
          MCPServerInstance_parseToolsListResponse("S", toolsArray)
    \/ \E name \in ToolNamesA, enabled \in BOOLEAN :
          MCPServerInstance_setToolEnabled("S", name, enabled)
    \/ \E category \in OverrideCategoriesA, enabled \in BOOLEAN :
          MCPServerInstance_setPermission("S", category, enabled)
    \/ \E category \in OverrideCategoriesA :
          MCPServerInstance_clearPermission("S", category)
    \/ \E category \in GlobalCategoriesA, enabled \in BOOLEAN :
          MCPServerManager_setGlobalPermission(category, enabled)

SpecAuth == Init /\ [][NextAuth]_vars

-----------------------------------------------------------------------------
(* Claims about the authorization of tools/call *)

\* the descriptors the server of session s holds for the tool
Descriptors(s, tool) ==
    {i \in 1..Len(m_tools[s.serverType]) :
        m_tools[s.serverType][i].name = tool}

\* the value a category resolves to on a server: the override when there is
\* one, the global default otherwise
Resolves(server, category) ==
    IF category \in DOMAIN m_permissions[server]
    THEN m_permissions[server][category]
    ELSE m_globalPermissions[category]

\* the tool is known and disabled on the server of session s
KnownAndDisabled(s, tool) ==
    \E i \in Descriptors(s, tool) : ~m_tools[s.serverType][i].enabled

\* some category the tool declares does not resolve to true
CategoryMissing(s, tool) ==
    \E i \in Descriptors(s, tool) :
        \E k \in 1..Len(m_tools[s.serverType][i].permissions) :
            ~Resolves(s.serverType, m_tools[s.serverType][i].permissions[k])

\* the outcome the ordered rules give for a call of the tool on session s
RuleOutcome(s, tool) ==
    IF KnownAndDisabled(s, tool) THEN -32001
    ELSE IF s.permissions # {} /\ BLOCK_ALL \in s.permissions THEN -32005
    ELSE IF s.permissions # {} /\ tool \notin s.permissions THEN -32004
    ELSE IF s.permissions = {} /\ CategoryMissing(s, tool) THEN -32003
    ELSE 0

C5_DisabledOrBlockedNeverForwarded ==
    [][\A sid \in DOMAIN m_sessions :
        ( /\ lastOp'.op = "tools/call"
          /\ lastOp'.sid = sid
          /\ \/ KnownAndDisabled(m_sessions[sid], lastOp'.tool)
             \/ BLOCK_ALL \in m_sessions[sid].permissions )
        => /\ ~lastOp'.fwd
           /\ lastOp'.sent = "error"
           /\ m_sessions' = m_sessions
      ]_vars

\* C5, case reached: a disabled tool that is on the allowlist of the session
\* was refused with -32001
C5_DisabledRefusedThoughAllowlisted ==
    /\ lastOp.op = "tools/call"
    /\ lastOp.code = -32001
    /\ lastOp.sid \in DOMAIN m_sessions
    /\ lastOp.tool \in m_sessions[lastOp.sid].permissions
    /\ BLOCK_ALL \notin m_sessions[lastOp.sid].permissions
    /\ KnownAndDisabled(m_sessions[lastOp.sid], lastOp.tool)

-----------------------------------------------------------------------------
(* Gateway analysis: two sockets, two sessions on the servers S and Q,    *)
(* requests of either socket on either session, subprocess events and     *)
(* permission changes made through the registry                           *)

ClientsG == {"c1", "c2"}
SessionIdsG == <<"s1", "s2">>
SessionNamesG == {"s1", "s2"}
CategoriesG == {"WRITE_REMOTE"}

NextGateway ==
    \/ \E client \in ClientsG : MCPGateway_onNewConnection(client)
    \/ \E client \in ClientsG : MCPGateway_onClientDisconnected(client)
    \/ \E client \in ClientsG, serverType \in Servers, startOk \in BOOLEAN :
          MCPGateway_handleCreateSession(client, JsonNum(1),
              LegacyParams(serverType), "", {}, startOk, SessionIdsG)
    \/ \E client \in ClientsG, sid \in SessionNamesG :
          /\ ReqBudget(sid, MaxReqG)
          /\ MCPGateway_handleToolCall(client, JsonNum(2),
                                       CallParams(sid, "t1", "a"))
    \/ \E client \in ClientsG, sid \in SessionNamesG :
          /\ ReqBudget(sid, MaxReqG)
          /\ MCPGateway_handleToolsList(client, JsonNum(3),
                                        CallParams(sid, "", ""))
    \/ \E client \in ClientsG, sid \in SessionNamesG :
          MCPGateway_handleDestroySession(client, JsonNum(4),
                                          CallParams(sid, "", ""))
    \/ \E sid \in SessionNamesG :
          MCPSession_onProcessReadyRead(sid, JsonNum(InitRequestId))
    \/ \E sid \in SessionNamesG, st \in {"NormalExit", "CrashExit"} :
          MCPSession_onProcessFinished(sid, st)
    \/ \E sid \in SessionNamesG : MCPSession_onProcessError(sid, "WriteError")
    \/ \E category \in CategoriesG :
          MCPServerInstance_setPermission("S", category, TRUE)
    \/ \E category \in CategoriesG :
          MCPServerInstance_clearPermission("S", category)
    \/ \E category \in CategoriesG, enabled \in BOOLEAN :
          MCPServerManager_setGlobalPermission(category, enabled)

SpecGateway == Init /\ [][NextGateway]_vars

-----------------------------------------------------------------------------
(* Claims about ownership, permission changes and subprocess errors *)

\* C3: a tools/call, tools/list or destroy-session request that names a
\* registered session and comes from a socket other than the one that
\* created it is answered with -32603; the session writes and queues
\* nothing, stays registered with its owner, and its subprocess is left
\* as it was.
C3_ForeignSocketRejected ==
    [][\A sid \in DOMAIN m_sessions :
        ( /\ lastOp'.op \in {"tools/call", "tools/list", "destroy-session"}
          /\ lastOp'.sid = sid
          /\ lastOp'.client \in m_clients
          /\ lastOp'.client # m_sessionClients[sid] )
        => /\ lastOp'.code = -32603
           /\ lastOp'.sent = "error"
           /\ ~lastOp'.fwd
           /\ m_sessions' = m_sessions
           /\ m_sessionClients' = m_sessionClients
           /\ procs' = procs
      ]_vars

\* C3, case reached: the other socket asked to destroy a running session of
\* c1 and was refused
C3_ForeignDestroyRefused ==
    /\ lastOp.op = "destroy-session"
    /\ lastOp.code = -32603
    /\ lastOp.client = "c2"
    /\ lastOp.sid \in DOMAIN m_sessions
    /\ m_sessionClients[lastOp.sid] = "c1"
    /\ procs[lastOp.sid] = "Running"
    /\ m_sessions[lastOp.sid].m_initialized

\* C7: after setPermission or clearPermission on the supervisor of a server,
\* no session that targets this server is registered, and every session
\* that targets another server is registered and running as before.
C7_ServerChangeDestroysItsSessions ==
    [][lastOp'.op \in {"setPermission", "clearPermission"}
        => /\ \A sid \in DOMAIN m_sessions :
                 m_sessions[sid].serverType = lastOp'.tool
                 => /\ sid \notin DOMAIN m_sessions'
                    /\ procs'[sid] = "NotRunning"
           /\ \A sid \in DOMAIN m_sessions :
                 m_sessions[sid].serverType # lastOp'.tool
                 => /\ sid \in DOMAIN m_sessions'
                    /\ m_sessions'[sid] = m_sessions[sid]
                    /\ procs'[sid] = procs[sid]
      ]_vars

\* C8: after setGlobalPermission the session table and the owner table are
\* empty and no subprocess of a session is running.
C8_GlobalChangeEmptiesTable ==
    lastOp.op = "setGlobalPermission"
    => /\ m_sessions = EmptyMap
       /\ m_sessionClients = EmptyMap
       /\ \A sid \in DOMAIN procs : procs[sid] = "NotRunning"

\* C8, case reached: a global change destroyed two running sessions of two
\* clients on two servers
C8_TwoSessionsDestroyed ==
    /\ lastOp.op = "setGlobalPermission"
    /\ DOMAIN history = {"s1", "s2"}
    /\ \A sid \in DOMAIN history :
          /\ history[sid].cause = "global"
          /\ history[sid].destroyed = 1
    /\ history["s1"].serverType # history["s2"].serverType
    /\ history["s1"].client # history["s2"].client

\* C10: after the subprocess of a registered session has raised serverError
\* (a crash or another process error), the session is in neither the session
\* table nor the owner table.
C10_FatalErrorDestroysSession ==
    lastOp.op = "serverError"
    => /\ lastOp.sid \notin DOMAIN m_sessions
       /\ lastOp.sid \notin DOMAIN m_sessionClients

\* C11: when a client socket disconnects, every session owned by that socket
\* is destroyed (subprocess stopped, session removed from the session table
\* and the owner table), and every session owned by another socket stays
\* registered with the same owner, the same state and the same subprocess
\* state.
C11_DisconnectDestroysOwnSessionsOnly ==
    [][lastOp'.op = "disconnect"
        => \A sid \in DOMAIN m_sessions :
              IF m_sessionClients[sid] = lastOp'.client
              THEN /\ sid \notin DOMAIN m_sessions'
                   /\ sid \notin DOMAIN m_sessionClients'
                   /\ procs'[sid] = "NotRunning"
              ELSE /\ sid \in DOMAIN m_sessions'
                   /\ m_sessions'[sid] = m_sessions[sid]
                   /\ sid \in DOMAIN m_sessionClients'
                   /\ m_sessionClients'[sid] = m_sessionClients[sid]
                   /\ procs'[sid] = procs[sid]
      ]_vars

\* C11, case reached: a socket disconnected, its session was destroyed, and
\* the running session of the other socket is still registered
C11_OtherSocketSessionKept ==
    /\ lastOp.op = "disconnect"
    /\ \E gone \in DOMAIN history :
          /\ history[gone].client = lastOp.client
          /\ history[gone].cause = "disconnect"
          /\ history[gone].destroyed = 1
          /\ gone \notin DOMAIN m_sessions
    /\ \E kept \in DOMAIN m_sessions :
          /\ m_sessionClients[kept] # lastOp.client
          /\ procs[kept] = "Running"

-----------------------------------------------------------------------------
(* Scenario: one client opens three sessions on S and Q, a global          *)
(* permission default changes, the client calls tools on the sessions      *)

SessionIdsS == <<"s1", "s2", "s3">>
SessionNamesS == {"s1", "s2", "s3"}

NextScenario ==
    \/ MCPGateway_onNewConnection("c1")
    \/ \E serverType \in Servers :
          MCPGateway_handleCreateSession("c1", JsonNum(1),
              LegacyParams(serverType), "", {}, TRUE, SessionIdsS)
    \/ \E sid \in SessionNamesS :
          MCPSession_onProcessReadyRead(sid, JsonNum(InitRequestId))
    \/ \E sid \in SessionNamesS :
          /\ ReqBudget(sid, MaxReqG)
          /\ MCPGateway_handleToolCall("c1", JsonNum(2),
                                       CallParams(sid, "t1", "a"))
    \/ \E enabled \in BOOLEAN :
          MCPServerManager_setGlobalPermission("WRITE_REMOTE", enabled)

SpecScenario == Init /\ [][NextScenario]_vars

\* two running sessions on S and a third running session on Q
ScenarioOpen ==
    /\ DOMAIN m_sessions = SessionNamesS
    /\ Cardinality({sid \in DOMAIN m_sessions :
                       m_sessions[sid].serverType = "S"}) = 2
    /\ Cardinality({sid \in DOMAIN m_sessions :
                       m_sessions[sid].serverType = "Q"}) = 1
    /\ \A sid \in DOMAIN m_sessions : procs[sid] = "Running"

\* a session the global change destroyed
DestroyedByGlobal(sid) ==
    /\ sid \in DOMAIN history
    /\ history[sid].cause = "global"
    /\ sid \notin DOMAIN m_sessions

\* C9 as stated: with two sessions on S and a third on Q, a global permission
\* change destroys both sessions of S and leaves the session of Q registered
\* and running; a later tools/call on a destroyed session is answered with
\* the not-found error.
C9_GlobalChangeSparesOtherServer ==
    [][/\ ( lastOp'.op = "setGlobalPermission" /\ ScenarioOpen )
          => \A sid \in DOMAIN m_sessions :
                IF m_sessions[sid].serverType = "S"
                THEN sid \notin DOMAIN m_sessions'
                ELSE /\ sid \in DOMAIN m_sessions'
                     /\ procs'[sid] = "Running"
       /\ \A sid \in SessionNamesS :
             ( lastOp'.op = "tools/call" /\ lastOp'.sid = sid
               /\ DestroyedByGlobal(sid) )
             => lastOp'.code = -32602
      ]_vars

\* C9 amended: with two sessions on S and a third on Q, a global permission
\* change destroys all three sessions, the one on Q included, and stops their
\* subprocesses; a later tools/call on any of them is answered with the
\* not-found error -32602 and reaches no subprocess.
C9_GlobalChangeDestroysAllThree ==
    [][/\ ( lastOp'.op = "setGlobalPermission" /\ ScenarioOpen )
          => /\ m_sessions' = EmptyMap
             /\ m_sessionClients' = EmptyMap
             /\ \A sid \in SessionNamesS : procs'[sid] = "NotRunning"
       /\ \A sid \in SessionNamesS :
             ( lastOp'.op = "tools/call" /\ lastOp'.sid = sid
               /\ DestroyedByGlobal(sid) )
             => /\ lastOp'.code = -32602
                /\ lastOp'.sent = "error"
                /\ ~lastOp'.fwd
                /\ m_sessions' = m_sessions
      ]_vars

\* C9, case reached: after the global change destroyed the two sessions of S
\* and the session of Q, a tools/call on the session of Q was answered with
\* -32602
C9_CallOnDestroyedThird ==
    /\ lastOp.op = "tools/call"
    /\ lastOp.code = -32602
    /\ DOMAIN history = SessionNamesS
    /\ \A sid \in SessionNamesS : DestroyedByGlobal(sid)
    /\ history[lastOp.sid].serverType = "Q"
    /\ Cardinality({sid \in SessionNamesS :
                       history[sid].serverType = "S"}) = 2

-----------------------------------------------------------------------------
(* Keystore analysis: credentials of one service and one user are stored, *)
(* deleted and migrated while the file is damaged from outside and the    *)
(* cipher may fail                                                        *)

ServicesK == {"azure"}
KeysK == {"pat"}
ValuesK == {"v1", "v2"}
UsersK == {"u"}
IvsK == {1, 2}
OtherUserK == "w"        \* a user who never stores a credential
DefaultK == "dflt"       \* the default value handed to getUserCredential
DamageKinds == {"version", "hmac", "truncate"}

NextKeystore ==
    \/ \E service \in ServicesK, key \in KeysK, value \in ValuesK,
          iv \in IvsK, encOk \in BOOLEAN :
          Keystore_setCredential(service, key, value, iv, encOk)
    \/ \E service \in ServicesK, key \in KeysK, iv \in IvsK,
          encOk \in BOOLEAN :
          Keystore_deleteCredential(service, key, iv, encOk)
    \/ \E service \in ServicesK, iv \in IvsK, encOk \in BOOLEAN :
          Keystore_clearService(service, iv, encOk)
    \/ \E userId \in UsersK, service \in ServicesK, key \in KeysK,
          value \in ValuesK, iv \in IvsK, encOk \in BOOLEAN :
          Keystore_setUserCredential(userId, service, key, value, iv, encOk)
    \/ \E userId \in UsersK, service \in ServicesK, key \in KeysK,
          iv \in IvsK, encOk \in BOOLEAN :
          Keystore_deleteUserCredential(userId, service, key, iv, encOk)
    \/ \E userId \in UsersK \cup {""}, iv \in IvsK, encOk \in BOOLEAN :
          Keystore_migrateToUser(userId, iv, encOk)
    \/ \E kind \in DamageKinds : DamageFile(kind)
    \/ \E userId \in UsersK \cup {OtherUserK}, service \in ServicesK,
          key \in KeysK :
          LookupUserCredential(userId, service, key, DefaultK)

SpecKeystore == Init /\ [][NextKeystore]_vars

\* the file holds a blob that decrypt rejects
Unreadable ==
    /\ keystoreFile.exists
    /\ keystoreFile.bytes.size # 0
    /\ Keystore_decrypt(keystoreFile.bytes) = <<>>

Mutators == {"setCredential", "setUserCredential", "deleteCredential",
             "deleteUserCredential", "clearService", "migrateToUser"}

\* C6: a mutating operation of the store that runs while the file holds a
\* blob that cannot be decrypted or authenticated, or whose encryption
\* fails, reports failure (false, or 0 migrated services) and leaves the
\* file as it was.
C6_UnreadableBlobNeverReplaced ==
    [][( /\ ksLast'.op \in Mutators
         /\ Unreadable \/ ~ksLast'.encOk )
       => /\ ksLast'.result = 0
          /\ keystoreFile' = keystoreFile
      ]_vars

\* the credential object the file holds
StoredData == Keystore_loadEncryptedData

InUsers(userId, service, key) ==
    /\ StoredData.hasUsers
    /\ userId \in DOMAIN StoredData.users
    /\ service \in DOMAIN StoredData.users[userId]
    /\ key \in DOMAIN StoredData.users[userId][service]

InShared(service, key) ==
    /\ StoredData.hasShared
    /\ service \in DOMAIN StoredData.shared
    /\ key \in DOMAIN StoredData.shared[service]

InFlat(service, key) ==
    /\ service \in DOMAIN StoredData.flat
    /\ key \in DOMAIN StoredData.flat[service]

\* C12: getUserCredential(u, service, key) returns the users[u] value when
\* users[u][service][key] exists, otherwise the shared value when
\* shared[service][key] exists, otherwise the legacy flat value when
\* service[key] exists, otherwise the default value.
C12_LookupOrderUserSharedFlat ==
    ksLast.op = "getUserCredential"
    => LET u == ksLast.userId
           s == ksLast.service
           k == ksLast.key
       IN  /\ InUsers(u, s, k) => ksLast.value = StoredData.users[u][s][k]
           /\ (~InUsers(u, s, k) /\ InShared(s, k))
                 => ksLast.value = StoredData.shared[s][k]
           /\ (~InUsers(u, s, k) /\ ~InShared(s, k) /\ InFlat(s, k))
                 => ksLast.value = StoredData.flat[s][k]
           /\ (~InUsers(u, s, k) /\ ~InShared(s, k) /\ ~InFlat(s, k))
                 => ksLast.value = DefaultK

\* C12, case reached: the key is present in all three namespaces, the
\* value of the user differs from the two others, and the lookup has
\* returned the value of the user
C12_AllThreePresentUserWins ==
    /\ ksLast.op = "getUserCredential"
    /\ InUsers(ksLast.userId, ksLast.service, ksLast.key)
    /\ InShared(ksLast.service, ksLast.key)
    /\ InFlat(ksLast.service, ksLast.key)
    /\ StoredData.users[ksLast.userId][ksLast.service][ksLast.key]
          # StoredData.shared[ksLast.service][ksLast.key]
    /\ StoredData.users[ksLast.userId][ksLast.service][ksLast.key]
          # StoredData.flat[ksLast.service][ksLast.key]
    /\ ksLast.value
          = StoredData.users[ksLast.userId][ksLast.service][ksLast.key]

-----------------------------------------------------------------------------
(* Cipher analysis: byte strings of zero, two, sixteen and thirty-two      *)
(* bytes are encrypted; the text is decrypted as it is, or after one of    *)
(* its bits has been inverted                                              *)

PlaintextsC ==
    {<<>>, <<123, 125>>, [i \in 1..16 |-> 97], [i \in 1..32 |-> 98]}
IvsC == {7}
ImagesC == {[ct |-> 60, tag |-> t] : t \in {0, 85, 170, 255}}
MaxEncodedLen == 140      \* characters of the longest text of the analysis

NextCipher ==
    \/ \E plaintext \in PlaintextsC, iv \in IvsC, ok \in BOOLEAN,
          image \in ImagesC :
          Cipher_encrypt(plaintext, iv, ok, image)
    \/ Cipher_decrypt
    \/ \E i \in 1..MaxEncodedLen, j \in 0..7 : Cipher_decryptFlipped(i, j)

SpecCipher == Init /\ [][NextCipher]_vars

\* C13: decrypt of the text encrypt returned for a byte string x returns
\* exactly x, and the test the caller applies to the result does not take
\* it for a failure; x may be empty.
C13_RoundTripDistinctFromFailure ==
    cipherLast.op = "decrypt"
    => /\ cipherLast.out = cipherLast.plaintext
       /\ ~DecryptFailed(cipherLast.out)

\* C14: decrypt of a stored text in which one bit has been inverted fails:
\* it returns the empty byte array, never a plaintext.
C14_AnyBitFlipFailsDecryption ==
    cipherLast.op = "flip" => DecryptFailed(cipherLast.out)

-----------------------------------------------------------------------------
(* Permission analysis: the global defaults and the overrides of the       *)
(* servers S and Q are set and cleared, S discovers tools, and the         *)
(* permission check of the supervisor is called for tool names             *)

CategoriesP == {"READ_REMOTE", "WRITE_REMOTE"}
ToolNamesP == {"t1", "t2", "t3"}
ToolsArraysP ==
    {<<[name |-> "t1", categories |-> <<"WRITE_REMOTE">>],
       [name |-> "t2", categories |-> <<>>]>>,
     <<[name |-> "t1", categories |-> <<"READ_REMOTE", "WRITE_REMOTE">>],
       [name |-> "t2", categories |-> <<"READ_REMOTE">>]>>,
     <<[name |-> "t1", categories |-> <<"write_remote">>],
       [name |-> "t2", categories |-> <<"ADMIN", "READ_REMOTE">>]>>}

NextPermissions ==
    \/ \E category \in CategoriesP, enabled \in BOOLEAN :
          MCPServerManager_setGlobalPermission(category, enabled)
    \/ \E server \in Servers, category \in CategoriesP, enabled \in BOOLEAN :
          MCPServerInstance_setPermission(server, category, enabled)
    \/ \E server \in Servers, category \in CategoriesP :
          MCPServerInstance_clearPermission(server, category)
    \/ \E toolsArray \in ToolsArraysP :
          MCPServerInstance_parseToolsListResponse("S", toolsArray)
    \/ \E server \in Servers, toolName \in ToolNamesP :
          CheckToolPermissions(server, toolName)

SpecPermissions == Init /\ [][NextPermissions]_vars

\* C15: for every server s and category c, after every step: without an
\* override, hasPermission(c) is the global default of c as it is now; a
\* change of a global default leaves hasPermission(c) of a server with an
\* override at the override; setPermission(s, c, e) makes it e;
\* clearPermission(s, c) makes it the global default of c; a change made on
\* another server or another category leaves it as it was.
C15_OverrideElseCurrentGlobalDefault ==
    [][\A s \in Servers, c \in Categories :
        /\ c \notin DOMAIN m_permissions'[s]
              => MCPServerInstance_hasPermission(s, c)' = m_globalPermissions'[c]
        /\ c \in DOMAIN m_permissions'[s]
              => MCPServerInstance_hasPermission(s, c)' = m_permissions'[s][c]
        /\ lastOp'.op = "setGlobalPermission"
              => IF c \in DOMAIN m_permissions[s]
                 THEN /\ MCPServerInstance_hasPermission(s, c)'
                           = MCPServerInstance_hasPermission(s, c)
                      /\ MCPServerInstance_hasPermission(s, c)'
                           = m_permissions[s][c]
                 ELSE c = lastOp'.category
                      => MCPServerInstance_hasPermission(s, c)'
                           = lastOp'.enabled
        /\ (lastOp'.op = "setPermission" /\ lastOp'.tool = s
               /\ lastOp'.category = c)
              => MCPServerInstance_hasPermission(s, c)' = lastOp'.enabled
        /\ (lastOp'.op = "clearPermission" /\ lastOp'.tool = s
               /\ lastOp'.category = c)
              => MCPServerInstance_hasPermission(s, c)' = m_globalPermissions[c]
        /\ (lastOp'.op \in {"setPermission", "clearPermission"}
               /\ (lastOp'.tool # s \/ lastOp'.category # c))
              => MCPServerInstance_hasPermission(s, c)'
                   = MCPServerInstance_hasPermission(s, c)
      ]_vars

\* C15, case reached: the global default of WRITE_REMOTE has just been set
\* to true; S, which overrides it with false, still refuses, and Q, which
\* has no override, follows the new default
C15_GlobalChangeWithOverrideOnS ==
    /\ lastOp.op = "setGlobalPermission"
    /\ lastOp.category = "WRITE_REMOTE"
    /\ lastOp.enabled
    /\ "WRITE_REMOTE" \in DOMAIN m_permissions["S"]
    /\ ~m_permissions["S"]["WRITE_REMOTE"]
    /\ ~MCPServerInstance_hasPermission("S", "WRITE_REMOTE")
    /\ "WRITE_REMOTE" \notin DOMAIN m_permissions["Q"]
    /\ MCPServerInstance_hasPermission("Q", "WRITE_REMOTE")

\* the category named by the string resolves to true on the server: the
\* string names one of the five categories, and the override of the server,
\* or else the global default, is true
ResolvesTrue(server, permStr) ==
    /\ permStr \in Categories
    /\ Resolves(server, permStr)

\* C16: checkToolPermissions permits a tool name for which the server holds
\* no descriptor, and permits a tool that has a descriptor only if every
\* category the descriptor declares resolves to true on the server.
C16_UnknownOpenKnownClosed ==
    lastOp.op = "checkToolPermissions"
    => LET server == lastOp.category
           i      == FindTool(m_tools[server], lastOp.tool)
       IN  /\ i = 0 => lastOp.result
           /\ (i # 0 /\ lastOp.result)
                 => \A k \in 1..Len(m_tools[server][i].permissions) :
                       ResolvesTrue(server, m_tools[server][i].permissions[k])

-----------------------------------------------------------------------------
(* Supervisor analysis: a supervisor with or without the auto-start flag   *)
(* is started, stopped and restarted from outside while the port is free   *)
(* or in use, the process starts, fails to start or is slow to start,     *)
(* exits, crashes, and is slow to exit; restart timers fire               *)

MaxRestartCount == 5      \* restart() is called while the counter is below
MaxTimers == 2            \* restart timers pending at a time
MaxAutoRestarts == 5      \* automatic restarts in a row

InputsV ==
    {Input(portFree, startup, exit, termStatus) :
        portFree \in BOOLEAN,
        startup \in {"started", "failed", "timeout"},
        exit \in {"terminate", "kill", "none"},
        termStatus \in {"NormalExit", "CrashExit"}}

InitSupervisor == \E autostart \in BOOLEAN : InitState(autostart)

NextSupervisor ==
    \/ \E in \in InputsV : Call_start(in)
    \/ \E in \in InputsV : Call_stop(in)
    \/ \E in \in InputsV :
          /\ instance.m_restartCount < MaxRestartCount
          /\ Call_restart(in)
    \/ \E in \in InputsV :
          /\ instance.m_restartCount < MaxRestartCount
          /\ instance.autoRestarts < MaxAutoRestarts
          /\ RestartTimer_timeout(in)
    \/ \E exitStatus \in {"NormalExit", "CrashExit"} :
          /\ QProcess_finished(exitStatus)
          /\ instance'.timers <= MaxTimers
    \/ \E ok \in BOOLEAN : QProcess_started(ok)

SpecSupervisor == InitSupervisor /\ [][NextSupervisor]_vars

\* the statuses of a call in order, the status before the call first
StatusPath(x) == <<x.last.from>> \o x.last.trace

\* C17: Starting is entered only by a start() whose port check found the
\* port free; a start() that finds the port in use, or whose process does
\* not confirm its start within the wait, ends in Error and has not passed
\* through Running; Running is entered only from Starting.
C17_StartingAfterPortCheckElseError ==
    [][LET x    == instance'
           path == StatusPath(instance')
       IN  /\ \A k \in 2..Len(path) :
                 path[k] = "Starting"
                 => x.last.attempt \in {"started", "failed", "timeout"}
           /\ x.last.attempt \in {"portInUse", "failed", "timeout"}
                 => /\ x.m_status = "Error"
                    /\ \A k \in 2..Len(path) : path[k] # "Running"
           /\ \A k \in 2..Len(path) :
                 path[k] = "Running" => path[k - 1] = "Starting"
      ]_vars

\* C18: the exit of a process that stop() has signalled sets neither
\* Crashed nor Error, emits no crashed() and schedules no restart; after a
\* stop() that found the supervisor neither Stopped nor Stopping the status
\* is Stopped and m_intentionalStop is false.
C18_StopExitNeverACrash ==
    [][LET x == instance'
       IN  /\ x.last.stopExit
                 => /\ \A k \in 1..Len(x.last.exitTrace) :
                          x.last.exitTrace[k] \notin {"Crashed", "Error"}
                    /\ x.last.exitCrashed = 0
                    /\ x.last.exitScheduled = 0
           /\ (x.last.op = "stop" /\ x.last.from \notin {"Stopped", "Stopping"})
                 => /\ x.m_status = "Stopped"
                    /\ ~x.m_intentionalStop
      ]_vars

\* C19: restart() adds one to the restart counter; when the counter then
\* exceeds m_maxRestarts the status becomes Error, the counter stays, and
\* nothing is done to the process; while the supervisor is in Error with
\* the counter above m_maxRestarts no restart timer is scheduled and a timer
\* that fires stops and starts nothing.
C19_RestartGivesUpAboveMax ==
    [][LET x == instance'
       IN  /\ x.last.op \in {"restart", "autoRestart"}
                 => /\ x.last.incremented = instance.m_restartCount + 1
                    /\ x.last.incremented > m_maxRestarts
                          => /\ x.m_status = "Error"
                             /\ x.m_restartCount = x.last.incremented
                             /\ x.last.procOps = <<>>
                             /\ x.last.attempt = "none"
                             /\ x.process = instance.process
           /\ ( /\ instance.m_status = "Error"
                /\ instance.m_restartCount > m_maxRestarts )
                 => /\ x.last.scheduled = 0
                    /\ x.timers <= instance.timers
                    /\ x.last.op = "autoRestart"
                          => /\ x.last.procOps = <<>>
                             /\ x.last.attempt = "none"
                             /\ x.m_status = "Error"
      ]_vars

\* C19, case reached: a restart timer fired after restart() had given up;
\* the counter rose above m_maxRestarts again and nothing was stopped or
\* started
C19_TimerAfterGivingUp ==
    /\ instance.last.op = "autoRestart"
    /\ instance.last.from = "Error"
    /\ instance.last.incremented > m_maxRestarts + 1
    /\ instance.m_status = "Error"
    /\ instance.last.procOps = <<>>
    /\ instance.last.attempt = "none"

\* C20: a restart timer is scheduled only for a supervisor with the
\* auto-start flag, and the timers never perform more than m_maxRestarts
\* restarts in a row.
C20_AutoRestartsBounded ==
    /\ instance.last.scheduled > 0 => instance.m_autoStart
    /\ instance.autoRestarts <= m_maxRestarts

-----------------------------------------------------------------------------
(* MCPGateway::getTokenForUser and MCPSession::buildEnvironment            *)

\* QString::toLower on the server type names in use
ToLower(s) ==
    CASE s = "Confluence"   -> "confluence"
      [] s = "Atlassian"    -> "atlassian"
      [] s = "Azure DevOps" -> "azure devops"
      [] s = "TeamCentraal" -> "teamcentraal"
      [] s = "ChatNS"       -> "chatns"
      [] s = "Other"        -> "other"
      [] OTHER              -> s

\* MCPGateway::getTokenForUser: the credential key of a system name
CredentialKey(system) ==
    IF ToLower(system) = "azure" \/ system = "Azure DevOps" THEN "pat"
    ELSE IF ToLower(system) = "confluence" \/ system = "Atlassian" THEN "token"
    ELSE IF ToLower(system) = "teamcentraal" THEN "password"
    ELSE IF ToLower(system) = "chatns" THEN "api_key"
    ELSE "token"

\* MCPGateway::getTokenForUser: the token returned, "" when none is found
MCPGateway_getTokenForUser(userId, system) ==
    LET credentialKey == CredentialKey(system)
        token == Keystore_getUserCredential(userId, ToLower(system),
                                            credentialKey, "")
    IN  IF token = "" /\ credentialKey = "token"
        THEN Keystore_getUserCredential(userId, ToLower(system), "password", "")
        ELSE token

\* QProcessEnvironment::insert of every entry of m
InsertAll(env, m) ==
    [k \in (DOMAIN env) \cup (DOMAIN m) |-> IF k \in DOMAIN m THEN m[k] ELSE env[k]]

\* the AZDO_PAT to ADO_MCP_AUTH_TOKEN mapping of buildEnvironment
WithAlias(env) ==
    IF "AZDO_PAT" \in DOMAIN env /\ "ADO_MCP_AUTH_TOKEN" \notin DOMAIN env
    THEN MapSet(env, "ADO_MCP_AUTH_TOKEN", env["AZDO_PAT"])
    ELSE env

\* the variables a server type inherits from the parent process
InheritedKeys(serverType) ==
    CASE serverType = "ChatNS" ->
             {"CHAT_APIM", "OCP_APIM_SUBSCRIPTION_KEY", "CHAT_BEARER"}
      [] serverType = "Azure DevOps" ->
             {"AZDO_PAT", "AZDO_ORG", "ADO_MCP_AUTH_TOKEN"}
      [] serverType = "Atlassian" ->
             {"ATLASSIAN_EMAIL", "ATLASSIAN_API_TOKEN", "CONFLUENCE_URL",
              "JIRA_URL"}
      [] serverType = "TeamCentraal" ->
             {"TEAMCENTRAAL_URL", "TEAMCENTRAAL_USERNAME",
              "TEAMCENTRAAL_PASSWORD"}
      [] OTHER -> {}

\* qEnvironmentVariable(key) of the parent process os, inserted for the keys
\* with a non-empty value that env does not contain
Inherit(env, os, keys) ==
    InsertAll(env, [k \in {x \in keys : /\ x \in DOMAIN os
                                        /\ os[x] # ""
                                        /\ x \notin DOMAIN env} |-> os[k]])

\* MCPSession::buildEnvironment: os is the environment of the gateway
\* process, which systemEnvironment() and qEnvironmentVariable() both read
MCPSession_buildEnvironment(os, serverConfig, credentials, serverType) ==
    LET base   == InsertAll(os, ObjectAt(serverConfig, "env"))
        given  == [k \in {x \in DOMAIN credentials : credentials[x] # ""}
                     |-> credentials[k]]
        cred   == InsertAll(base, given)
        mapped == IF serverType = "Azure DevOps" THEN WithAlias(cred) ELSE cred
        inh    == Inherit(mapped, os, InheritedKeys(serverType))
    IN  IF DOMAIN credentials # {} THEN mapped
        ELSE IF serverType = "Azure DevOps" THEN WithAlias(inh)
        ELSE inh

-----------------------------------------------------------------------------
(* Create-session analysis: one client asks for sessions of registered and *)
(* unregistered server types, with and without a user, while credentials   *)
(* of the user are written to the keystore                                 *)

ServersC == {"Confluence", "Azure DevOps", "TeamCentraal", "Other"}
UserC == "a@x.com"
KeysC == {"token", "password", "pat"}
SessionIdsC == <<"s1", "s2">>
MaxStoredC == 2

\* the value stored under a key
ValueC(key) ==
    CASE key = "token" -> "T1" [] key = "password" -> "P1" [] OTHER -> "A1"

ParamsC ==
    [serverType  : ServersC \cup {"", "Nope"},
     userId      : {"", UserC},
     clientApp   : {""},
     credentials : {EmptyMap, [k \in {"API_TOKEN"} |-> "legacy"]}]

InitCreate ==
    /\ instance = NewInstance(FALSE)
    /\ m_clients = {}
    /\ m_sessions = EmptyMap
    /\ m_sessionClients = EmptyMap
    /\ m_sessionCounter = 0
    /\ procs = EmptyMap
    /\ history = EmptyMap
    /\ registered_clients = {}
    /\ m_servers = [n \in ServersC |-> ServerConfig(n)]
    /\ m_tools = [n \in ServersC |-> <<>>]
    /\ m_permissions = [n \in ServersC |-> EmptyMap]
    /\ m_globalPermissions = GlobalDefaults
    /\ lastOp = Op("init", "", "", NoId, "", "none", 0, FALSE)
    /\ keystoreFile = NoFile
    /\ ksLast = KsOp("init", "", "", "", "", TRUE, FALSE, 0)
    /\ cipherLast = CipherOp("init", <<>>, NoBytes, 0, <<>>, <<>>)
    /\ configFile = NoConfigFile
    /\ m_configPath = ""

\* a create-session request of the client c1; the token is the one
\* getTokenForUser finds in the keystore
CreateSession(params, startOk) ==
    MCPGateway_handleCreateSession("c1", JsonNum(1), params,
        MCPGateway_getTokenForUser(params.userId, params.serverType),
        {}, startOk, SessionIdsC)

NextCreate ==
    \/ MCPGateway_onNewConnection("c1")
    \/ \E service \in {ToLower(n) : n \in ServersC}, key \in KeysC :
          /\ ~InUsers(UserC, service, key)
          /\ Cardinality({sk \in {ToLower(n) : n \in ServersC} \X KeysC :
                             InUsers(UserC, sk[1], sk[2])}) < MaxStoredC
          /\ Keystore_setUserCredential(UserC, service, key, ValueC(key), 1, TRUE)
    \/ \E params \in ParamsC, startOk \in BOOLEAN : CreateSession(params, startOk)

SpecCreate == InitCreate /\ [][NextCreate]_vars

\* the error the request is refused with, 0 when no case of refusal applies
RefusalCode(params, startOk) ==
    IF params.serverType = "" THEN -32602
    ELSE IF params.userId = "" /\ DOMAIN params.credentials = {} THEN -32602
    ELSE IF /\ params.userId # ""
            /\ MCPGateway_getTokenForUser(params.userId, params.serverType) = ""
         THEN -32001
    ELSE IF \A n \in DOMAIN m_servers : m_servers[n].name # params.serverType
         THEN -32602
    ELSE IF ~startOk THEN -32603
    ELSE 0

\* C21: a create-session request without a server type, without a user and
\* credentials, of a user without stored credential, for an unregistered
\* server or whose subprocess fails to start is answered with the error of
\* its case (-32602, -32602, -32001, -32602, -32603), and the session table,
\* the owner table and the subprocesses are as they were
C21_RefusedCreateRegistersNothing ==
    [][\A params \in ParamsC, startOk \in BOOLEAN :
          (CreateSession(params, startOk) /\ RefusalCode(params, startOk) # 0)
          => /\ lastOp'.op = "create-session"
             /\ lastOp'.client = "c1"
             /\ lastOp'.sent = "error"
             /\ lastOp'.code = RefusalCode(params, startOk)
             /\ m_sessions' = m_sessions
             /\ m_sessionClients' = m_sessionClients
             /\ procs' = procs]_vars

\* a start failure of the second session of a user, refused with -32603
\* while the first session stays the only one
C21_StartFailureKeepsTables ==
    /\ lastOp.op = "create-session"
    /\ lastOp.code = -32603
    /\ m_sessionCounter = 2
    /\ registered_clients # {}
    /\ DOMAIN m_sessions = {"s1"}
    /\ DOMAIN procs = {"s1"}

\* environments of the gateway process
OsEnvsC == {EmptyMap, [k \in {"token", "PATH"} |-> "os"]}

\* the keys a server type selects, in the order they are tried
SelectedKeys(serverType) ==
    CASE serverType = "Azure DevOps" -> <<"pat">>
      [] serverType = "Confluence"   -> <<"token">>
      [] serverType = "TeamCentraal" -> <<"password">>
      [] serverType = "ChatNS"       -> <<"api_key">>
      [] OTHER                       -> <<"token", "password">>

\* the value stored for the user under the first of the keys that holds one
RECURSIVE FirstStored(_, _, _)
FirstStored(userId, service, keys) ==
    IF keys = <<>> THEN ""
    ELSE IF Keystore_getUserCredential(userId, service, Head(keys), "") # ""
         THEN Keystore_getUserCredential(userId, service, Head(keys), "")
         ELSE FirstStored(userId, service, Tail(keys))

\* C22: a create-session request with a userId finds the credential under
\* the key its server type selects (Azure DevOps: pat, Confluence: token,
\* TeamCentraal: password, ChatNS: api_key, any other: token, then
\* password); without such a credential no session is created, and the
\* environment of a created session holds the value found in the variable
\* of its credential
C22_CredentialOfSelectedKeyInjected ==
    [][\A params \in ParamsC, startOk \in BOOLEAN :
          (/\ CreateSession(params, startOk)
           /\ params.userId # ""
           /\ params.serverType \in DOMAIN m_servers)
          => LET found == FirstStored(params.userId, ToLower(params.serverType),
                                      SelectedKeys(params.serverType))
             IN  IF found = ""
                 THEN lastOp'.code = -32001 /\ m_sessions' = m_sessions
                 ELSE lastOp'.code = 0 =>
                      \A os \in OsEnvsC :
                         LET session == m_sessions'[lastOp'.sid]
                             env == MCPSession_buildEnvironment(os,
                                        m_servers[params.serverType],
                                        session.m_credentials,
                                        session.serverType)
                         IN  \E v \in DOMAIN session.m_credentials :
                                v \in DOMAIN env /\ env[v] = found]_vars

-----------------------------------------------------------------------------
(* MCPServerManager: addServer, removeServer, loadConfig, saveConfig.  A   *)
(* server definition is a JSON object: a function from the keys it holds,  *)
(* the port a QJsonValue.  The configuration file is missing, no JSON,     *)
(* JSON that is no object, or an object with the global defaults it names  *)
(* and the array of its server definitions.                                *)

\* variant of validateServerConfig without the check of the port
\* (sensitivity of C23)
ValidateServerConfig_AnyPort(config) ==
    /\ "name" \in DOMAIN config
    /\ config.name # ""
    /\ "command" \in DOMAIN config
    /\ config.command # ""

\* MCPServerManager::validateServerConfig
MCPServerManager_validateServerConfig(config) ==
    /\ "name" \in DOMAIN config
    /\ config.name # ""
    /\ "command" \in DOMAIN config
    /\ config.command # ""
    /\ "port" \in DOMAIN config
    /\ ToInt(config.port) >= 1024
    /\ ToInt(config.port) <= 65535

\* MCPServerInstance constructor: the overrides a definition names
ExplicitPermissions(config) ==
    LET perms == ObjectAt(config, "permissions")
    IN  [c \in Categories \cap DOMAIN perms |-> perms[c]]

\* the servers of a registry with their tools and overrides
Registry(servers, tools, permissions) ==
    [permissions |-> permissions, tools |-> tools, servers |-> servers]

\* MCPServerManager::addServer accepts the definition
Accepts(servers, config) ==
    /\ MCPServerManager_validateServerConfig(config)
    /\ config.name \notin DOMAIN servers

\* MCPServerManager::addServer on a registry: the registry it leaves
AddServer(reg, config) ==
    IF Accepts(reg.servers, config)
    THEN Registry(MapSet(reg.servers, config.name, config),
                  MapSet(reg.tools, config.name, <<>>),
                  MapSet(reg.permissions, config.name,
                         ExplicitPermissions(config)))
    ELSE reg

\* the loop of loadConfig over the servers array
RECURSIVE AddServers(_, _)
AddServers(reg, configs) ==
    IF configs = <<>> THEN reg
    ELSE AddServers(AddServer(reg, Head(configs)), Tail(configs))

\* the registry operation that ran last, the signal it emitted and what it
\* returned
RegOp(op, name, sent, result) ==
    [Op(op, "", "", NoId, name, sent, 0, FALSE) EXCEPT !.result = result]

\* MCPServerManager::addServer: serverAdded is emitted for an accepted
\* definition
MCPServerManager_addServer(serverConfig) ==
    LET reg == AddServer(Registry(m_servers, m_tools, m_permissions),
                         serverConfig)
        ok  == Accepts(m_servers, serverConfig)
    IN  /\ m_servers' = reg.servers
        /\ m_tools' = reg.tools
        /\ m_permissions' = reg.permissions
        /\ lastOp' = RegOp("addServer",
                           IF "name" \in DOMAIN serverConfig
                           THEN serverConfig.name ELSE "",
                           IF ok THEN "serverAdded" ELSE "none",
                           [ok |-> ok, config |-> serverConfig])
        /\ UNCHANGED <<m_globalPermissions, cfgVars>>
        /\ UNCHANGED outsideRegistry

\* MCPServerManager::removeServer
MCPServerManager_removeServer(name) ==
    /\ m_servers' = Restrict(m_servers, DOMAIN m_servers \ {name})
    /\ m_tools' = Restrict(m_tools, DOMAIN m_tools \ {name})
    /\ m_permissions' = Restrict(m_permissions, DOMAIN m_permissions \ {name})
    /\ lastOp' = RegOp("removeServer", name,
                       IF name \in DOMAIN m_servers THEN "serverRemoved"
                       ELSE "none",
                       name \in DOMAIN m_servers)
    /\ UNCHANGED <<m_globalPermissions, cfgVars>>
    /\ UNCHANGED outsideRegistry

\* the global defaults loadConfig leaves for a configuration object
LoadedGlobalPermissions(file) ==
    [c \in Categories |-> IF c \in DOMAIN file.global_defaults
                          THEN file.global_defaults[c]
                          ELSE GlobalDefaults[c]]

\* MCPServerManager::loadConfig of the file at configPath
MCPServerManager_loadConfig(configPath) ==
    LET ok  == configFile.kind = "object"
        reg == AddServers(Registry(EmptyMap, EmptyMap, EmptyMap),
                          configFile.servers)
    IN  /\ IF ok
           THEN /\ m_configPath' = configPath
                /\ m_globalPermissions' = LoadedGlobalPermissions(configFile)
                /\ m_servers' = reg.servers
                /\ m_tools' = reg.tools
                /\ m_permissions' = reg.permissions
           ELSE UNCHANGED <<m_configPath, m_globalPermissions, m_servers,
                            m_tools, m_permissions>>
        /\ lastOp' = RegOp("loadConfig", configPath,
                           IF ok THEN "configChanged" ELSE "none", ok)
        /\ UNCHANGED configFile
        /\ UNCHANGED outsideRegistry

\* the names of the registered servers in the order of QMap
ServerNames == <<"A", "B", "C">>

\* saveConfig: the object written for a server
SavedServer(name) ==
    IF DOMAIN m_permissions[name] # {}
    THEN MapSet(m_servers[name], "permissions", m_permissions[name])
    ELSE MapRemove(m_servers[name], "permissions")

\* saveConfig: the document written
SavedConfig ==
    [kind |-> "object",
     servers |->
         LET names == SelectSeq(ServerNames, LAMBDA n : n \in DOMAIN m_servers)
         IN  [i \in 1..Len(names) |-> SavedServer(names[i])],
     global_defaults |->
         [c \in Categories |-> IF c \in DOMAIN m_globalPermissions
                               THEN m_globalPermissions[c]
                               ELSE c = "READ_REMOTE"]]

\* MCPServerManager::saveConfig; writable is the result of QFile::open, which
\* fails for the empty path
MCPServerManager_saveConfig(configPath, writable) ==
    LET path == IF configPath = "" THEN m_configPath ELSE configPath
        ok   == path # "" /\ writable
    IN  /\ configFile' = IF ok THEN SavedConfig ELSE configFile
        /\ lastOp' = RegOp("saveConfig", path, "none", ok)
        /\ UNCHANGED <<m_servers, m_tools, m_permissions, m_globalPermissions,
                       m_configPath>>
        /\ UNCHANGED outsideRegistry

-----------------------------------------------------------------------------
(* Registry analysis: a registry after its constructor, definitions added  *)
(* and removed, overrides and defaults set, the configuration file edited, *)
(* loaded and saved                                                        *)

DefA == [name |-> "A", command |-> "run", port |-> JsonNum(65535)]
DefB ==
    [name |-> "B", permissions |-> [WRITE_REMOTE |-> TRUE, ADMIN |-> TRUE],
     command |-> "run", port |-> JsonNum(1024)]

DefsR ==
    {DefA, DefB,
     [command |-> "run", port |-> JsonNum(8080)],
     [name |-> "C", command |-> "", port |-> JsonNum(8080)],
     [name |-> "C", command |-> "run"],
     [name |-> "C", command |-> "run", port |-> JsonNum(1023)],
     [name |-> "C", command |-> "run", port |-> JsonNum(65536)],
     [name |-> "C", command |-> "run", port |-> JsonStr("8080")]}

FilesR ==
    {NoConfigFile, [kind |-> "garbage"], [kind |-> "array"],
     [kind |-> "object",
      servers |-> <<DefA, DefB, DefA,
                    [name |-> "C", command |-> "run", port |-> JsonNum(80)]>>,
      global_defaults |-> EmptyMap],
     [kind |-> "object",
      servers |-> <<DefB>>,
      global_defaults |-> [WRITE_REMOTE |-> TRUE, READ_REMOTE |-> FALSE]]}

CategoriesR == {"WRITE_REMOTE"}
PathR == "servers.json"

\* the registry after the constructor of MCPServerManager
InitRegistry ==
    /\ instance = NewInstance(FALSE)
    /\ m_clients = {}
    /\ m_sessions = EmptyMap
    /\ m_sessionClients = EmptyMap
    /\ m_sessionCounter = 0
    /\ procs = EmptyMap
    /\ history = EmptyMap
    /\ registered_clients = {}
    /\ m_servers = EmptyMap
    /\ m_tools = EmptyMap
    /\ m_permissions = EmptyMap
    /\ m_globalPermissions = EmptyMap
    /\ lastOp = Op("init", "", "", NoId, "", "none", 0, FALSE)
    /\ keystoreFile = NoFile
    /\ ksLast = KsOp("init", "", "", "", "", TRUE, FALSE, 0)
    /\ cipherLast = CipherOp("init", <<>>, NoBytes, 0, <<>>, <<>>)
    /\ configFile \in FilesR
    /\ m_configPath = ""

NextRegistry ==
    \/ \E serverConfig \in DefsR : MCPServerManager_addServer(serverConfig)
    \/ \E name \in {"A", "B"} : MCPServerManager_removeServer(name)
    \/ MCPServerManager_loadConfig(PathR)
    \/ \E configPath \in {"", PathR}, writable \in BOOLEAN :
          MCPServerManager_saveConfig(configPath, writable)
    \/ \E enabled \in BOOLEAN :
          MCPServerManager_setGlobalPermission("READ_REMOTE", enabled)
    \/ \E category \in CategoriesR, enabled \in BOOLEAN :
          MCPServerInstance_setPermission("A", category, enabled)
    \/ \E category \in CategoriesR :
          MCPServerInstance_clearPermission("A", category)

SpecRegistry == InitRegistry /\ [][NextRegistry]_vars

\* every registered server has a name, a command and a port in range, and
\* no two of them the same name
RegistryValid ==
    /\ \A n \in DOMAIN m_servers :
          /\ "name" \in DOMAIN m_servers[n] /\ m_servers[n].name = n
          /\ m_servers[n].name # ""
          /\ "command" \in DOMAIN m_servers[n] /\ m_servers[n].command # ""
          /\ "port" \in DOMAIN m_servers[n]
          /\ m_servers[n].port.t = "num"
          /\ m_servers[n].port.n \in 1024..65535
    /\ \A n1, n2 \in DOMAIN m_servers :
          m_servers[n1].name = m_servers[n2].name => n1 = n2

\* addServer accepts exactly the definitions with a name, a command, a new
\* name and a port in range; a rejected one changes and emits nothing
AddServerRule ==
    lastOp'.op = "addServer" =>
        LET config == lastOp'.result.config
            valid  == /\ "name" \in DOMAIN config /\ config.name # ""
                      /\ "command" \in DOMAIN config /\ config.command # ""
                      /\ config.name \notin DOMAIN m_servers
                      /\ "port" \in DOMAIN config /\ config.port.t = "num"
                      /\ config.port.n \in 1024..65535
        IN  /\ lastOp'.result.ok = valid
            /\ valid => /\ m_servers' = MapSet(m_servers, config.name, config)
                        /\ lastOp'.sent = "serverAdded"
            /\ ~valid => /\ m_servers' = m_servers
                         /\ lastOp'.sent = "none"

\* C23: addServer accepts a definition only with a non-empty name and
\* command, a name that is not registered and a port in 1024..65535; a
\* rejected definition leaves the server map as it was and emits no
\* serverAdded; in every state the registry reaches the names of the
\* servers are unique and each server has a name, a command and a port in
\* range
C23_OnlyValidServersRegistered ==
    []RegistryValid /\ [][AddServerRule]_vars

\* a duplicate of a registered name was rejected while two servers are
\* registered
C23_DuplicateRejected ==
    /\ lastOp.op = "addServer"
    /\ ~lastOp.result.ok
    /\ lastOp.tool = "A"
    /\ DOMAIN m_servers = {"A", "B"}

\* a saved document names for each server exactly its overrides
SaveRule ==
    (lastOp'.op = "saveConfig" /\ lastOp'.result) =>
        /\ Len(configFile'.servers) = Cardinality(DOMAIN m_servers)
        /\ \A i \in 1..Len(configFile'.servers) :
              LET saved == configFile'.servers[i]
              IN  /\ saved.name \in DOMAIN m_servers
                  /\ ("permissions" \in DOMAIN saved)
                        <=> (DOMAIN m_permissions[saved.name] # {})
                  /\ ObjectAt(saved, "permissions") = m_permissions[saved.name]

\* loading the document saveConfig writes for the registry as it is gives
\* the same servers, overrides and global defaults
RoundTripRule ==
    (lastOp'.op = "loadConfig" /\ lastOp'.result /\ configFile = SavedConfig) =>
        /\ DOMAIN m_servers' = DOMAIN m_servers
        /\ m_permissions' = m_permissions
        /\ \A c \in Categories :
              MCPServerManager_getGlobalPermission(c)'
                  = MCPServerManager_getGlobalPermission(c)

\* C24: saveConfig writes for each server exactly its explicit overrides,
\* no permissions entry for a server without overrides and never an
\* inherited value; loadConfig of the file saveConfig wrote gives a registry
\* with the same overrides of every server, the inherited categories still
\* inherited, and the same global defaults
C24_SaveLoadKeepsOverridesAndDefaults ==
    [][SaveRule /\ RoundTripRule]_vars

\* a default no load and no setGlobalPermission has stored resolves to true
\* for READ_REMOTE and to false for the others, and a server without
\* override resolves to the value saveConfig writes
UnsetDefaults ==
    \A c \in Categories :
        c \notin DOMAIN m_globalPermissions =>
            /\ MCPServerManager_getGlobalPermission(c) = (c = "READ_REMOTE")
            /\ \A n \in DOMAIN m_servers :
                  c \notin DOMAIN m_permissions[n] =>
                      MCPServerInstance_hasPermission(n, c)
                          = SavedConfig.global_defaults[c]

\* a default the loaded configuration does not name is true for READ_REMOTE
\* and false for the others
LoadDefaultsRule ==
    (lastOp'.op = "loadConfig" /\ lastOp'.result) =>
        \A c \in Categories \ DOMAIN configFile.global_defaults :
            MCPServerManager_getGlobalPermission(c)' = (c = "READ_REMOTE")

\* C28: while neither a loaded configuration nor setGlobalPermission has
\* set the global default of a category, the default resolves to true for
\* READ_REMOTE and to false for the other four categories, also on a
\* registry on which loadConfig was never called or failed, and a server
\* without override resolves to the value saveConfig writes out
C28_SafeDefaultsWithoutConfiguration ==
    []UnsetDefaults /\ [][LoadDefaultsRule]_vars

-----------------------------------------------------------------------------
(* MCPGateway::onClientReadyRead: the lines of one read.  A line is blank, *)
(* no JSON text, a JSON scalar, a JSON array or a JSON object with a       *)
(* method and an id.                                                       *)

Line(text, method, id) == [id |-> id, method |-> method, text |-> text]

\* QJsonDocument::fromJson: a document is an array or an object, anything
\* else, a JSON scalar included, is a parse error
QJsonDocument_fromJson(line) ==
    IF line.text = "object" THEN "object"
    ELSE IF line.text = "array" THEN "array"
    ELSE "error"

\* a message written to a client socket
Answer(client, id, code) == [id |-> id, client |-> client, code |-> code]

\* MCPGateway::handleMessage of the methods that only answer
MCPGateway_handleMessage(client, line) ==
    IF line.method \in {"mcp-manager/list-sessions", "mcp-manager/list-servers"}
    THEN Answer(client, line.id, 0)
    ELSE Answer(client, line.id, -32601)

\* the body of the loop of onClientReadyRead: what is written for a line
LineAnswers(client, line) ==
    IF line.text = "blank" THEN <<>>
    ELSE IF QJsonDocument_fromJson(line) = "error"
         THEN <<Answer(client, JsonNull, -32700)>>
    ELSE IF QJsonDocument_fromJson(line) # "object"
         THEN <<Answer(client, JsonNull, -32600)>>
    ELSE <<MCPGateway_handleMessage(client, line)>>

\* the loop of onClientReadyRead over the complete lines of the buffer
RECURSIVE Answers(_, _)
Answers(client, lines) ==
    IF lines = <<>> THEN <<>>
    ELSE LineAnswers(client, Head(lines)) \o Answers(client, Tail(lines))

\* MCPGateway::onClientReadyRead for a read of lines none of which asks for
\* a session or a tool
MCPGateway_onClientReadyRead(client, lines) ==
    /\ client \in m_clients
    /\ lastOp' = [Op("readyRead", client, "", NoId, "", "none", 0, FALSE)
                     EXCEPT !.result = [lines   |-> lines,
                                        answers |-> Answers(client, lines)]]
    /\ UNCHANGED <<gwVars, regVars>>
    /\ UNCHANGED outsideGateway

-----------------------------------------------------------------------------
(* Line analysis: two clients, sessions of both, reads of up to MaxLines   *)
(* lines                                                                   *)

MaxLines == 2
ClientsL == {"c1", "c2"}
SessionIdsL == <<"s1", "s2">>

LinesL ==
    {Line("blank", "", JsonNull), Line("garbage", "", JsonNull),
     Line("scalar", "", JsonNull), Line("array", "", JsonNull),
     Line("object", "mcp-manager/list-sessions", JsonNum(7)),
     Line("object", "no/such/method", JsonNum(8)),
     Line("object", "", JsonNull)}

ReadsL == UNION {[1..n -> LinesL] : n \in 1..MaxLines}

NextLines ==
    \/ \E client \in ClientsL : MCPGateway_onNewConnection(client)
    \/ \E client \in ClientsL : MCPGateway_onClientDisconnected(client)
    \/ \E client \in ClientsL :
          MCPGateway_handleCreateSession(client, JsonNum(1), LegacyParams("S"),
                                         "", {}, TRUE, SessionIdsL)
    \/ \E client \in ClientsL, lines \in ReadsL :
          MCPGateway_onClientReadyRead(client, lines)

SpecLines == Init /\ [][NextLines]_vars

\* the answer the protocol gives a line: none for a blank line, -32700 for
\* a text that is no JSON, -32600 for JSON that is no object, -32601 for an
\* unknown method
ProtocolAnswers(client, line) ==
    IF line.text = "blank" THEN <<>>
    ELSE IF line.text = "garbage" THEN <<Answer(client, JsonNull, -32700)>>
    ELSE IF line.text \in {"scalar", "array"}
         THEN <<Answer(client, JsonNull, -32600)>>
    ELSE IF line.method = "mcp-manager/list-sessions"
         THEN <<Answer(client, line.id, 0)>>
    ELSE <<Answer(client, line.id, -32601)>>

RECURSIVE AllProtocolAnswers(_, _)
AllProtocolAnswers(client, lines) ==
    IF lines = <<>> THEN <<>>
    ELSE ProtocolAnswers(client, Head(lines))
             \o AllProtocolAnswers(client, Tail(lines))

\* C25: of the lines of a read, each malformed one is answered -32700, each
\* JSON value that is no object -32600 and each unknown method -32601, to
\* the client that sent it only; the connection and the sessions stay as
\* they are, and the lines after a refused one are answered in their order
C25_BadLineAnsweredAndSkipped ==
    [][lastOp'.op = "readyRead" =>
          /\ lastOp'.result.answers
                = AllProtocolAnswers(lastOp'.client, lastOp'.result.lines)
          /\ m_clients' = m_clients
          /\ m_sessions' = m_sessions
          /\ m_sessionClients' = m_sessionClients
          /\ procs' = procs]_vars

-----------------------------------------------------------------------------
(* Exits of the subprocess of a session, in the runs of the gateway      *)
(* analysis                                                              *)

\* the subprocess of a session that stays registered stops running in this
\* step: an exit the gateway did not ask for
ExitsUnrequested(sid) ==
    /\ sid \in DOMAIN m_sessions
    /\ sid \in DOMAIN m_sessions'
    /\ procs[sid] = "Running"
    /\ procs'[sid] # "Running"

\* C26: when the subprocess of a session exits without the gateway having
\* asked for it, by a crash or by a normal exit, the session emits an error
\* event that reaches the gateway and is no longer active, and a session
\* whose subprocess is not running never has a running subprocess again
C26_UnrequestedExitReportedNoRestart ==
    [][\A sid \in DOMAIN procs :
          /\ ExitsUnrequested(sid) =>
                /\ lastOp'.op = "serverError"
                /\ lastOp'.sid = sid
                /\ ~MCPSession_isServerRunning(sid)'
          /\ (procs[sid] # "Running" /\ sid \in DOMAIN procs') =>
                procs'[sid] # "Running"]_vars

-----------------------------------------------------------------------------
(* MCPSession::onProcessReadyRead over the lines of one read of the        *)
(* standard output of the subprocess.  acc holds the session record and    *)
(* the objects handed to responseReceived so far.                          *)

\* variant of the loop body that hands the initialize response to
\* responseReceived as well (sensitivity of C27)
OutputLine_ForwardingInit(acc, line) ==
    IF QJsonDocument_fromJson(line) # "object" THEN acc
    ELSE IF /\ ~acc.s.m_initialized
            /\ ToInt(line.id) = acc.s.m_initRequestId
         THEN [s |-> HandleInitializeResponse(acc.s, TRUE),
               emitted |-> Append(acc.emitted, line)]
    ELSE [s |-> acc.s, emitted |-> Append(acc.emitted, line)]

\* the body of the loop: blank lines, parse errors and documents that are
\* no object are skipped, the initialize response completes the handshake,
\* any other object is emitted with responseReceived
OutputLine(acc, line) ==
    IF QJsonDocument_fromJson(line) # "object" THEN acc
    ELSE IF /\ ~acc.s.m_initialized
            /\ ToInt(line.id) = acc.s.m_initRequestId
         THEN [s |-> HandleInitializeResponse(acc.s, TRUE),
               emitted |-> acc.emitted]
    ELSE [s |-> acc.s, emitted |-> Append(acc.emitted, line)]

RECURSIVE OutputLines(_, _)
OutputLines(acc, lines) ==
    IF lines = <<>> THEN acc
    ELSE OutputLines(OutputLine(acc, Head(lines)), Tail(lines))

\* MCPSession::onProcessReadyRead for a read of several lines, with
\* MCPGateway::onSessionResponse as the slot of responseReceived: each
\* object is written to the socket of the session if that socket is open
OnProcessReadyRead_Lines(sid, lines) ==
    /\ sid \in DOMAIN m_sessions
    /\ MCPSession_isServerRunning(sid)
    /\ LET out == OutputLines([s |-> m_sessions[sid], emitted |-> <<>>], lines)
       IN  /\ m_sessions' = [m_sessions EXCEPT ![sid] = out.s]
           /\ lastOp' = [Op("output", SessionClient(sid), sid, NoId, "",
                            IF SessionClient(sid) # "" /\ out.emitted # <<>>
                            THEN "response" ELSE "none", 0, FALSE)
                            EXCEPT !.result =
                                [lines |-> lines,
                                 forwarded |-> IF SessionClient(sid) # ""
                                               THEN out.emitted ELSE <<>>]]
    /\ UNCHANGED <<m_clients, m_sessionClients, m_sessionCounter, procs,
                   history, regVars>>
    /\ UNCHANGED outsideGateway

-----------------------------------------------------------------------------
(* Forwarding analysis: two clients with a session each, whose             *)
(* subprocesses write up to MaxOutputLines lines per read                  *)

MaxOutputLines == 2
ClientsF == {"c1", "c2"}
SessionIdsF == <<"s1", "s2">>

OutputLinesF ==
    {Line("blank", "", JsonNull), Line("garbage", "", JsonNull),
     Line("array", "", JsonNull),
     Line("object", "", JsonNum(InitRequestId)),
     Line("object", "", JsonNum(5)),
     Line("object", "notifications/message", JsonNull)}

ReadsF == UNION {[1..n -> OutputLinesF] : n \in 1..MaxOutputLines}

NextForward ==
    \/ \E client \in ClientsF : MCPGateway_onNewConnection(client)
    \/ \E client \in ClientsF : MCPGateway_onClientDisconnected(client)
    \/ \E client \in ClientsF :
          MCPGateway_handleCreateSession(client, JsonNum(1), LegacyParams("S"),
                                         "", {}, TRUE, SessionIdsF)
    \/ \E sid \in {"s1", "s2"}, lines \in ReadsF :
          OnProcessReadyRead_Lines(sid, lines)

SpecForward == Init /\ [][NextForward]_vars

\* the object lines of a read in their order, without the first line that
\* answers the initialize request of a session that awaits it
RECURSIVE ObjectsToForward(_, _)
ObjectsToForward(awaiting, lines) ==
    IF lines = <<>> THEN <<>>
    ELSE IF Head(lines).text # "object"
         THEN ObjectsToForward(awaiting, Tail(lines))
    ELSE IF awaiting /\ Head(lines).id = JsonNum(InitRequestId)
         THEN ObjectsToForward(FALSE, Tail(lines))
    ELSE <<Head(lines)>> \o ObjectsToForward(awaiting, Tail(lines))

\* C27: every JSON object line the subprocess of an initialized session
\* writes is forwarded as it is and in the order written to the socket that
\* owns the session and to no other; the response to the initialize request
\* of the session is forwarded to no client
C27_OutputForwardedToOwnerInOrder ==
    [][lastOp'.op = "output" =>
          LET sid == lastOp'.sid
          IN  /\ lastOp'.client = m_sessionClients[sid]
              /\ lastOp'.client \in m_clients
              /\ lastOp'.result.forwarded
                    = ObjectsToForward(~m_sessions[sid].m_initialized,
                                       lastOp'.result.lines)
              /\ m_sessions[sid].m_initialized =>
                    lastOp'.result.forwarded
                        = SelectSeq(lastOp'.result.lines,
                                    LAMBDA l : l.text = "object")]_vars

\* a read of the initialize response and a notification of the second
\* session: the notification alone reached the second client
C27_InitResponseWithheld ==
    /\ lastOp.op = "output"
    /\ lastOp.sid = "s2"
    /\ lastOp.client = "c2"
    /\ m_sessionClients["s1"] = "c1"
    /\ lastOp.result.lines
          = <<Line("object", "", JsonNum(InitRequestId)),
              Line("object", "notifications/message", JsonNull)>>
    /\ lastOp.result.forwarded
          = <<Line("object", "notifications/message", JsonNull)>>

-----------------------------------------------------------------------------
(* Environment analysis: MCPSession::startServer builds the environment    *)
(* of the subprocess from the environment of the gateway, the env object   *)
(* of the server definition and the credentials of the session             *)

OsEnvsE ==
    UNION {[ks -> {"os"}] :
             ks \in SUBSET {"AZDO_PAT", "ADO_MCP_AUTH_TOKEN", "TEAMCENTRAAL_URL"}}
DeclaredEnvsE ==
    UNION {[ks -> {"declared"}] : ks \in SUBSET {"AZDO_PAT", "ADO_MCP_AUTH_TOKEN"}}
CredentialsE ==
    UNION {[ks -> {"secret", ""}] : ks \in SUBSET {"AZDO_PAT", "ADO_MCP_AUTH_TOKEN"}}
ServerTypesE == {"Azure DevOps", "TeamCentraal", "Other"}

\* the call of buildEnvironment in MCPSession::startServer
MCPSession_startServer_Environment(os, declared, credentials, serverType) ==
    /\ lastOp' = [Op("buildEnvironment", "", "", NoId, serverType, "none", 0, FALSE)
                     EXCEPT !.result =
                       [credentials |-> credentials,
                        env |-> MCPSession_buildEnvironment(
                                    os, [env |-> declared], credentials,
                                    serverType),
                        os |-> os,
                        declared |-> declared]]
    /\ UNCHANGED <<gwVars, regVars, ksVars, cipherVars, svVars, cfgVars>>

NextEnvironment ==
    \E os \in OsEnvsE, declared \in DeclaredEnvsE, credentials \in CredentialsE,
       serverType \in ServerTypesE :
          MCPSession_startServer_Environment(os, declared, credentials, serverType)

SpecEnvironment == Init /\ [][NextEnvironment]_vars

\* the three layers of the environment, lowest precedence first
Layered(os, declared, credentials) ==
    InsertAll(InsertAll(os, declared), credentials)

\* C29: the environment of the subprocess is the environment of the gateway
\* overridden by the env entries of the server definition, overridden by the
\* credentials with one variable per credential key; for the service of the
\* alias, ADO_MCP_AUTH_TOKEN is added as a copy of AZDO_PAT exactly when
\* AZDO_PAT is present and ADO_MCP_AUTH_TOKEN absent; variables inherited by
\* the whitelist of the service appear only without credentials and replace
\* no variable that is set
C29_EnvironmentLayersAliasWhitelist ==
    lastOp.op = "buildEnvironment" =>
        LET r       == lastOp.result
            layered == Layered(r.os, r.declared, r.credentials)
            added   == (DOMAIN r.env) \ (DOMAIN layered)
        IN  /\ \A k \in DOMAIN layered :
                  k \in DOMAIN r.env /\ r.env[k] = layered[k]
            /\ lastOp.tool = "Azure DevOps" =>
                  /\ "ADO_MCP_AUTH_TOKEN" \in added
                        <=> /\ "AZDO_PAT" \in DOMAIN layered
                            /\ "ADO_MCP_AUTH_TOKEN" \notin DOMAIN layered
                  /\ "ADO_MCP_AUTH_TOKEN" \in added
                        => r.env["ADO_MCP_AUTH_TOKEN"] = r.env["AZDO_PAT"]
            /\ \A k \in added :
                  \/ k = "ADO_MCP_AUTH_TOKEN" /\ lastOp.tool = "Azure DevOps"
                  \/ /\ DOMAIN r.credentials = {}
                     /\ k \in InheritedKeys(lastOp.tool)
                     /\ k \in DOMAIN r.os

-----------------------------------------------------------------------------
(* MCPServerInstance: the handshake with the supervised process and the    *)
(* discovery of its tools                                                  *)

\* QProcess::write: the message reaches the standard input of a running
\* process; for any other process write returns -1
QProcess_write(x, message) ==
    IF x.process = "Running" THEN [x EXCEPT !.stdin = Append(@, message)]
    ELSE x

\* variant of refreshTools that asks for the tools without a handshake
\* (sensitivity of C30)
RefreshTools_WithoutHandshake(x) ==
    IF x.m_status # "Running" THEN x
    ELSE QProcess_write(x, "tools/list")

\* MCPServerInstance::refreshTools
MCPServerInstance_refreshTools(x) ==
    IF x.m_status # "Running" THEN x
    ELSE IF ~x.m_initialized
    THEN IF x.process # "Running" THEN x
         ELSE QProcess_write([x EXCEPT !.m_pendingToolsRefresh = TRUE],
                             "initialize")
    ELSE QProcess_write(x, "tools/list")

\* a line of the standard output.  text: "blank", "text" (no brace at its
\* beginning), "brace" (a brace at its beginning and no JSON document) or
\* "object"; result: absent, or an object with or without a tools array
OutputLineV(text, id, result) == [id |-> id, result |-> result, text |-> text]
NoResult == [tools |-> <<>>, present |-> FALSE, hasTools |-> FALSE]
Result(hasTools, tools) ==
    [tools |-> tools, present |-> TRUE, hasTools |-> hasTools]

\* the descriptors parseToolsListResponse builds from result.tools
ParsedTools(toolsArray) ==
    [i \in 1..Len(toolsArray) |->
        ToolInfo(toolsArray[i].name, TRUE, toolsArray[i].categories)]

\* the body of the loop of onReadyReadStandardOutput.  acc.x is the
\* supervisor, acc.tools its descriptors, acc.changed whether toolsChanged
\* was emitted
ReadLine(acc, line) ==
    IF line.text = "blank" THEN acc
    ELSE IF line.text = "object" /\ ToInt(line.id) = 1 /\ line.result.present
    THEN LET a == QProcess_write([acc.x EXCEPT !.m_initialized = TRUE],
                                 "notifications/initialized")
         IN  [acc EXCEPT !.x =
                 IF a.m_pendingToolsRefresh
                 THEN MCPServerInstance_refreshTools(
                          [a EXCEPT !.m_pendingToolsRefresh = FALSE])
                 ELSE a]
    ELSE IF line.text = "object" /\ ToInt(line.id) = 999 /\ line.result.present
    THEN IF line.result.hasTools
         THEN [acc EXCEPT !.tools = ParsedTools(line.result.tools),
                          !.changed = TRUE]
         ELSE acc
    ELSE [acc EXCEPT !.x.last.output = Append(@, line)]

RECURSIVE ReadLines(_, _)
ReadLines(acc, lines) ==
    IF lines = <<>> THEN acc
    ELSE ReadLines(ReadLine(acc, Head(lines)), Tail(lines))

\* the server whose supervisor instance is
SupervisedServer == "S"

\* refreshTools() called by the window
Call_refreshTools ==
    /\ instance' = MCPServerInstance_refreshTools(Begin("refreshTools", FALSE))
    /\ UNCHANGED outsideSupervisor

\* MCPServerInstance::onReadyReadStandardOutput: the running process has
\* written lines.  A read that stop() sees during its waits ends as the
\* same read seen by the event loop: stop() has cleared
\* m_pendingToolsRefresh, so the status is not consulted.
MCPServerInstance_onReadyReadStandardOutput(lines) ==
    /\ instance.process = "Running"
    /\ SupervisedServer \in DOMAIN m_servers
    /\ LET out == ReadLines([x |-> [Begin("readyRead", FALSE)
                                       EXCEPT !.last.input = lines],
                             tools |-> m_tools[SupervisedServer],
                             changed |-> FALSE], lines)
       IN  /\ instance' = out.x
           /\ m_tools' = [m_tools EXCEPT ![SupervisedServer] = out.tools]
           /\ lastOp' = IF out.changed
                        THEN Op("toolsChanged", "", "", NoId, SupervisedServer,
                                "none", 0, FALSE)
                        ELSE lastOp
    /\ UNCHANGED <<gwVars, registered_clients, m_servers, m_permissions,
                   m_globalPermissions, ksVars, cipherVars, cfgVars>>

-----------------------------------------------------------------------------
(* Discovery analysis: the supervisor of S is started and stopped, its     *)
(* process exits and crashes, restart timers fire, the window asks for the *)
(* tools, and the process writes up to MaxReadLines lines per read         *)

MaxReadLines == 2
MaxWrites == 4            \* messages written to one process

HandshakeResponse == OutputLineV("object", JsonNum(1), Result(FALSE, <<>>))

LinesD ==
    {OutputLineV("blank", JsonNull, NoResult),
     OutputLineV("brace", JsonNull, NoResult),
     HandshakeResponse,
     OutputLineV("object", JsonNum(1), NoResult),
     OutputLineV("object", JsonNum(999),
                 Result(TRUE, <<[name |-> "t1", categories |-> <<>>]>>))}

ReadsD == UNION {[1..n -> LinesD] : n \in 1..MaxReadLines}

InputsD ==
    {Input(TRUE, startup, exit, "NormalExit") :
        startup \in {"started", "failed", "timeout"},
        exit \in {"terminate", "none"}}

NextDiscovery ==
    \/ \E in \in InputsD : Call_start(in)
    \/ \E in \in InputsD : Call_stop(in)
    \/ \E in \in InputsD :
          /\ instance.m_restartCount < MaxRestartCount
          /\ Call_restart(in)
    \/ \E in \in InputsD :
          /\ instance.m_restartCount < MaxRestartCount
          /\ instance.autoRestarts < 1
          /\ RestartTimer_timeout(in)
    \/ \E exitStatus \in {"NormalExit", "CrashExit"} :
          /\ QProcess_finished(exitStatus)
          /\ instance'.timers <= 1
    \/ \E ok \in BOOLEAN : QProcess_started(ok)
    \/ /\ Len(instance.stdin) < MaxWrites
       /\ Call_refreshTools
    \/ \E lines \in ReadsD :
          /\ MCPServerInstance_onReadyReadStandardOutput(lines)
          /\ Len(instance'.stdin) <= MaxWrites

SpecDiscovery == InitSupervisor /\ [][NextDiscovery]_vars

\* the messages a step has written to the process
Written(before, after) == SubSeq(after, Len(before) + 1, Len(after))

\* message is in w, and somewhere before it there is earlier
WrittenAfter(w, earlier, message) ==
    \E i, j \in 1..Len(w) : i < j /\ w[i] = earlier /\ w[j] = message

\* every tools/list a process was sent follows a notifications/initialized
\* sent to the same process
DiscoveryAfterHandshake ==
    \A j \in 1..Len(instance.stdin) :
        instance.stdin[j] = "tools/list"
           => \E i \in 1..(j-1) : instance.stdin[i] = "notifications/initialized"

\* without a running process there is no handshake state
ResetWithoutProcess ==
    instance.process # "Running"
       => ~instance.m_initialized /\ ~instance.m_pendingToolsRefresh

\* notifications/initialized is written on a read of the handshake response
\* only; refreshTools of a running supervisor that is not initialized
\* writes initialize and nothing else; the read of the handshake response
\* by a supervisor with a deferred refresh writes notifications/initialized
\* and then tools/list; stop() and the exit of the process clear the
\* handshake state
DiscoverySteps ==
    LET x == instance'
        w == Written(instance.stdin, x.stdin)
    IN  /\ (x.last.op = "readyRead" /\ x.stdin # instance.stdin)
              => /\ \E k \in 1..Len(x.last.input) :
                        x.last.input[k] = HandshakeResponse
                 /\ w[1] = "notifications/initialized"
        /\ (x.last.op # "readyRead" /\ x.process = "Running"
               /\ instance.process = "Running")
              => \A k \in 1..Len(w) : w[k] # "notifications/initialized"
        /\ (x.last.op = "refreshTools" /\ instance.m_status = "Running"
               /\ ~instance.m_initialized)
              => /\ w = <<"initialize">>
                 /\ x.m_pendingToolsRefresh
        /\ (x.last.op = "readyRead" /\ instance.m_pendingToolsRefresh
               /\ \E k \in 1..Len(x.last.input) :
                     x.last.input[k] = HandshakeResponse)
              => /\ WrittenAfter(w, "notifications/initialized", "tools/list")
                 /\ x.m_initialized
        /\ (x.last.op = "stop" /\ x.last.from \notin {"Stopped", "Stopping"})
              => ~x.m_initialized /\ ~x.m_pendingToolsRefresh
        /\ x.last.op = "finished"
              => ~x.m_initialized /\ ~x.m_pendingToolsRefresh

\* C30: tools/list is written to a process only after its handshake
\* response was read and notifications/initialized written to it;
\* refreshTools before the end of the handshake writes initialize, and the
\* deferred tools/list is written when the handshake response is read;
\* stop() and the exit of the process reset the handshake state, so the
\* next process gets a handshake before any tools/list
C30_DiscoveryOnlyAfterHandshake ==
    /\ [](DiscoveryAfterHandshake /\ ResetWithoutProcess)
    /\ [][DiscoverySteps]_vars

\* the process started by a restart timer after a crash was asked for its
\* tools before its handshake: it got initialize, and on its response
\* notifications/initialized and the deferred tools/list
C30_SecondProcessHandshakeThenDiscovery ==
    /\ instance.last.op = "readyRead"
    /\ instance.autoRestarts = 1
    /\ instance.stdin
          = <<"initialize", "notifications/initialized", "tools/list">>
    /\ instance.m_initialized
    /\ ~instance.m_pendingToolsRefresh

-----------------------------------------------------------------------------
(* Keystore::decrypt step by step: the checks in the order the code makes  *)
(* them, with the clock of the call                                        *)

\* the token encrypt builds when the clock reads clock
Keystore_encryptAt(plaintext, iv, clock) ==
    [Keystore_encrypt(plaintext, iv, TRUE) EXCEPT
        !.ts = clock,
        !.hmac = HmacSha256(FernetVersion, clock, iv,
                            AesEncrypt(iv, plaintext))]

\* variant of decrypt that rejects a token of the future (sensitivity of C31)
Decrypt_RejectingFuture(token, now) ==
    IF token.size < FernetMinSize THEN [bytes |-> <<>>, steps |-> <<"size">>]
    ELSE IF token.version # FernetVersion
    THEN [bytes |-> <<>>, steps |-> <<"size", "version">>]
    ELSE IF token.hmac
              # HmacSha256(token.version, token.ts, token.iv, token.ct)
    THEN [bytes |-> <<>>, steps |-> <<"size", "version", "hmac">>]
    ELSE IF now < token.ts
    THEN [bytes |-> <<>>, steps |-> <<"size", "version", "hmac", "future">>]
    ELSE [bytes |-> AesDecrypt(token.iv, token.ct),
          steps |-> <<"size", "version", "hmac", "aes">>]

\* Keystore::decrypt at the time now: the checks made and, in bytes, the
\* byte array returned.  "future" is the warning about the timestamp.
Keystore_decryptSteps(token, now) ==
    IF token.size < FernetMinSize THEN [bytes |-> <<>>, steps |-> <<"size">>]
    ELSE IF token.version # FernetVersion
    THEN [bytes |-> <<>>, steps |-> <<"size", "version">>]
    ELSE IF token.hmac
              # HmacSha256(token.version, token.ts, token.iv, token.ct)
    THEN [bytes |-> <<>>, steps |-> <<"size", "version", "hmac">>]
    ELSE [bytes |-> AesDecrypt(token.iv, token.ct),
          steps |-> <<"size", "version", "hmac">>
                       \o (IF now < token.ts THEN <<"future">> ELSE <<>>)
                       \o <<"aes">>]

\* a byte with another value
OtherByte(b) == (b + 1) % 256

\* what has become of the bytes of a token outside the store
Damaged(bytes, kind) ==
    CASE kind = "intact"     -> bytes
      [] kind = "truncate"   -> SubSeq(bytes, 1, FernetMinSize - 1)
      [] kind = "shorten"    -> SubSeq(bytes, 1, Len(bytes) - 1)
      [] kind = "version"    -> [bytes EXCEPT ![1] = OtherByte(@)]
      [] kind = "timestamp"  -> [bytes EXCEPT ![9] = OtherByte(@)]
      [] kind = "ciphertext" -> [bytes EXCEPT ![26] = OtherByte(@)]
      [] kind = "hmac"       -> [bytes EXCEPT ![Len(bytes)] = OtherByte(@)]

\* a call of Keystore::encrypt while the clock reads clock
Cipher_encryptAt(plaintext, iv, clock, image) ==
    /\ cipherLast' = CipherOp("encryptAt", plaintext,
                              Keystore_encryptAt(plaintext, iv, clock), image,
                              EncodedToken(
                                  Keystore_encryptAt(plaintext, iv, clock),
                                  image),
                              <<>>)
    /\ UNCHANGED outsideCipher

\* a call of Keystore::decrypt, while the clock reads now, with the text of
\* the token as it is after the damage
Cipher_decryptAt(kind, now) ==
    /\ cipherLast.op = "encryptAt"
    /\ LET text == ToBase64Url(Damaged(TokenBytes(cipherLast.token,
                                                  cipherLast.image), kind))
           r    == Keystore_decryptSteps(
                       ParseToken(FromBase64Url(text), cipherLast.token,
                                  cipherLast.image), now)
       IN  cipherLast' = [cipherLast EXCEPT
               !.op = "decryptAt",
               !.encoded = text,
               !.out = [bytes |-> r.bytes, now |-> now, steps |-> r.steps]]
    /\ UNCHANGED outsideCipher

-----------------------------------------------------------------------------
(* Decrypt analysis: tokens issued at two readings of the clock are        *)
(* damaged outside the store and decrypted before and after the later      *)
(* reading                                                                 *)

PlaintextsD == {<<>>, <<123, 125>>, [i \in 1..16 |-> 97]}
ImagesD == {[ct |-> 60, tag |-> t] : t \in {0, 255}}
ClocksD == {1, 5}
NowsD == {3, 7}
DamageKindsD ==
    {"intact", "truncate", "shorten", "version", "timestamp", "ciphertext",
     "hmac"}

NextDecrypt ==
    \/ \E plaintext \in PlaintextsD, iv \in IvsC, clock \in ClocksD,
          image \in ImagesD :
          Cipher_encryptAt(plaintext, iv, clock, image)
    \/ \E kind \in DamageKindsD, now \in NowsD : Cipher_decryptAt(kind, now)

SpecDecrypt == Init /\ [][NextDecrypt]_vars

\* C31: decrypt returns no plaintext for a text whose decoded length is
\* below 73, whose version byte is not 0x80, or whose bytes are not those
\* of the token issued under the key (the recomputed HMAC differs); it
\* decrypts the ciphertext only after the HMAC was verified; it returns the
\* plaintext of an intact token whose timestamp lies in the future
C31_DecryptRejectsBeforeDecrypting ==
    cipherLast.op = "decryptAt" =>
        LET bytes  == FromBase64Url(cipherLast.encoded)
            issued == TokenBytes(cipherLast.token, cipherLast.image)
            r      == cipherLast.out
        IN  /\ Len(bytes) < 73 => r.bytes = <<>> /\ r.steps = <<"size">>
            /\ (Len(bytes) >= 73 /\ bytes[1] # 128) => r.bytes = <<>>
            /\ bytes # issued => r.bytes = <<>>
            /\ \A i \in 1..Len(r.steps) :
                  r.steps[i] = "aes"
                     => /\ \E j \in 1..(i-1) : r.steps[j] = "hmac"
                        /\ bytes = issued
            /\ (bytes = issued /\ r.now < cipherLast.token.ts)
                  => /\ r.bytes = cipherLast.plaintext
                     /\ r.steps[Len(r.steps)] = "aes"

\* an intact token issued when the clock read 5 is decrypted when the
\* clock reads 3: the warning is given and the plaintext returned
C31_FutureTokenDecrypted ==
    /\ cipherLast.op = "decryptAt"
    /\ cipherLast.token.ts = 5
    /\ cipherLast.out.now = 3
    /\ cipherLast.out.steps = <<"size", "version", "hmac", "future", "aes">>
    /\ cipherLast.out.bytes = <<123, 125>>

-----------------------------------------------------------------------------
(* Session lifetime: the handlers that call cleanupSession more than once  *)
(* (the slots of QTcpSocket::disconnected, stop) and list-sessions         *)

\* the tables of the gateway as one value
Tables ==
    [m_clients |-> m_clients, m_sessions |-> m_sessions,
     m_sessionClients |-> m_sessionClients, procs |-> procs,
     history |-> history]

\* variant of cleanupSession that removes the session and keeps its owner
\* entry (sensitivity of C32)
CleanupSessionAt_KeepingOwner(g, sessionId, cause) ==
    IF sessionId \notin DOMAIN g.m_sessions THEN g
    ELSE [g EXCEPT !.m_sessions = MapRemove(@, sessionId),
                   !.procs[sessionId] = "NotRunning",
                   !.history[sessionId] =
                       [@ EXCEPT !.destroyed = @ + 1, !.cause = cause]]

\* variant of cleanupSession without the early return for an id that is not
\* registered (sensitivity of C39)
CleanupSessionAt_Unguarded(g, sessionId, cause) ==
    IF sessionId \notin DOMAIN g.history THEN g
    ELSE [g EXCEPT !.m_sessions = Restrict(@, (DOMAIN @) \ {sessionId}),
                   !.m_sessionClients = Restrict(@, (DOMAIN @) \ {sessionId}),
                   !.procs[sessionId] = "NotRunning",
                   !.history[sessionId] =
                       [@ EXCEPT !.destroyed = @ + 1, !.cause = cause]]

\* MCPGateway::cleanupSession(sessionId) on the tables g
MCPGateway_cleanupSessionAt(g, sessionId, cause) ==
    IF sessionId \notin DOMAIN g.m_sessions THEN g
    ELSE [g EXCEPT !.m_sessions = MapRemove(@, sessionId),
                   !.m_sessionClients = MapRemove(@, sessionId),
                   !.procs[sessionId] = "NotRunning",
                   !.history[sessionId] =
                       [@ EXCEPT !.destroyed = @ + 1, !.cause = cause]]

\* a loop that calls cleanupSession for every id of a list
RECURSIVE CleanupEach(_, _, _)
CleanupEach(g, ids, cause) ==
    IF ids = {} THEN g
    ELSE LET sessionId == CHOOSE x \in ids : TRUE
         IN  CleanupEach(MCPGateway_cleanupSessionAt(g, sessionId, cause),
                         ids \ {sessionId}, cause)

\* QTcpSocket::disconnected of a socket: the slots run in the order they
\* were connected.  First MCPGateway::onClientDisconnected (connected in
\* onNewConnection), then MCPSession::onClientDisconnected of every session
\* object built on the socket that is not deleted yet (alive); each emits
\* clientDisconnected, whose slot MCPGateway::onSessionClientDisconnected
\* calls cleanupSession with the id of the session
Disconnected(g, client, alive) ==
    LET sessionsToRemove ==
            {sid \in DOMAIN g.m_sessionClients : g.m_sessionClients[sid] = client}
        g1 == CleanupEach(g, sessionsToRemove, "disconnect")
        g2 == [g1 EXCEPT !.m_clients = @ \ {client}]
    IN  CleanupEach(g2, alive, "client-signal")

RECURSIVE DisconnectEach(_, _, _)
DisconnectEach(g, clients, alive) ==
    IF clients = {} THEN g
    ELSE LET client == CHOOSE x \in clients : TRUE
         IN  DisconnectEach(
                 Disconnected(g, client,
                     {sid \in alive : history[sid].client = client}),
                 clients \ {client}, alive)

SetTables(g) ==
    /\ m_clients' = g.m_clients
    /\ m_sessions' = g.m_sessions
    /\ m_sessionClients' = g.m_sessionClients
    /\ procs' = g.procs
    /\ history' = g.history

\* a socket of the gateway is disconnected by its peer
QTcpSocket_disconnected(client) ==
    /\ client \in m_clients
    /\ SetTables(Disconnected(Tables, client,
           {sid \in DOMAIN m_sessionClients : m_sessionClients[sid] = client}))
    /\ lastOp' = Op("disconnected", client, "", NoId, "", "none", 0, FALSE)
    /\ UNCHANGED <<m_sessionCounter, regVars>>
    /\ UNCHANGED outsideGateway

\* MCPGateway::stop() of a listening gateway: cleanupSession for every key
\* of m_sessions, then disconnectFromHost() on every socket, whose
\* disconnected signal runs the slots above while the session objects wait
\* for their deferred deletion.  The gateway listens again after start()
MCPGateway_stop ==
    /\ SetTables(DisconnectEach(
           CleanupEach(Tables, DOMAIN m_sessions, "stop"),
           m_clients, DOMAIN m_sessions))
    /\ lastOp' = Op("stop", "", "", NoId, "", "none", 0, FALSE)
    /\ UNCHANGED <<m_sessionCounter, regVars>>
    /\ UNCHANGED outsideGateway

\* MCPSession::isActive of a registered session
MCPSession_isActive(sid) ==
    m_sessionClients[sid] \in m_clients /\ MCPSession_isServerRunning(sid)

SessionInfo(sid) ==
    [serverType |-> m_sessions[sid].serverType, sessionId |-> sid,
     active |-> MCPSession_isActive(sid)]

\* variant of list-sessions without the comparison of the sockets
\* (sensitivity of C40)
ListSessions_AnySocket(client) ==
    {SessionInfo(sid) : sid \in DOMAIN m_sessions}

\* the loop of handleListSessions: the entries of the response
ListSessions(client) ==
    {SessionInfo(sid) : sid \in {x \in DOMAIN m_sessions :
                                    m_sessionClients[x] = client}}

MCPGateway_handleListSessions(client, id) ==
    /\ client \in m_clients
    /\ lastOp' = [Op("list-sessions", client, "", id, "", "result", 0, FALSE)
                     EXCEPT !.result = ListSessions(client)]
    /\ UNCHANGED <<gwVars, regVars>>
    /\ UNCHANGED outsideGateway

ClientsLt == {"c1", "c2"}
SessionIdsLt == <<"s1", "s2">>
SessionNamesLt == {"s1", "s2"}

NextLifetime ==
    \/ \E client \in ClientsLt : MCPGateway_onNewConnection(client)
    \/ \E client \in ClientsLt : QTcpSocket_disconnected(client)
    \/ \E client \in ClientsLt, serverType \in Servers, startOk \in BOOLEAN :
          MCPGateway_handleCreateSession(client, JsonNum(1),
              LegacyParams(serverType), "", {}, startOk, SessionIdsLt)
    \/ \E client \in ClientsLt, sid \in SessionNamesLt :
          MCPGateway_handleDestroySession(client, JsonNum(4),
                                          CallParams(sid, "", ""))
    \/ \E client \in ClientsLt :
          MCPGateway_handleListSessions(client, JsonNum(5))
    \/ \E sid \in SessionNamesLt :
          MCPSession_onProcessFinished(sid, "NormalExit")
    \/ \E category \in CategoriesG :
          MCPServerInstance_setPermission("S", category, TRUE)
    \/ \E category \in CategoriesG :
          MCPServerManager_setGlobalPermission(category, TRUE)
    \/ MCPGateway_stop

SpecLifetime == Init /\ [][NextLifetime]_vars

\* C32: in every reachable state the session table and the owner table hold
\* the same ids and every owner is a connected socket; and no step changes
\* the owner of a session that is registered before and after it.
C32_TablesAgreeOwnerFixed ==
    /\ [](/\ DOMAIN m_sessions = DOMAIN m_sessionClients
          /\ \A sid \in DOMAIN m_sessionClients :
                m_sessionClients[sid] \in m_clients)
    /\ [][\A sid \in (DOMAIN m_sessionClients) \cap (DOMAIN m_sessionClients') :
             /\ m_sessionClients'[sid] = m_sessionClients[sid]
             /\ m_sessionClients[sid] = history[sid].client]_vars

\* C32, case reached: a gateway stop ended the session of one socket, and a
\* session created afterwards by another socket is registered with a
\* connected owner
C32_SessionAfterStop ==
    \E a \in DOMAIN history, b \in DOMAIN m_sessionClients :
        /\ history[a].cause = "stop"
        /\ a \notin DOMAIN m_sessions
        /\ m_sessionClients[b] # history[a].client
        /\ m_sessionClients[b] \in m_clients

-----------------------------------------------------------------------------
(* Claims about requests that pass the checks of the gateway *)

\* what a session holds for its subprocess: written, then queued
Held(s) == s.stdin \o s.m_pendingRequests

\* C33: a tools/call or tools/list that passes the ownership and
\* authorization checks of a registered session is written or queued to the
\* subprocess of the session, or answered to the client with an error, also
\* after the subprocess has exited.
C33_AcceptedRequestNeverDropped ==
    [][( /\ lastOp'.op \in {"tools/call", "tools/list"}
         /\ lastOp'.sid \in DOMAIN m_sessions
         /\ OwnershipCode(lastOp'.client, lastOp'.sid) = 0
         /\ lastOp'.op = "tools/call" =>
                AuthorizationCode(lastOp'.sid, lastOp'.tool) = 0 )
       => \/ lastOp'.sent = "error"
          \/ Len(Held(m_sessions'[lastOp'.sid])) =
                 Len(Held(m_sessions[lastOp'.sid])) + 1
      ]_vars

\* how often notifications/initialized was written to the subprocess
InitializedWritten(s) ==
    Cardinality({i \in 1..Len(s.stdin) : s.stdin[i] = InitializedNotification})

\* C34: the pending queue of a session grows only while the session is not
\* initialized; an initialized session has an empty queue and has written
\* notifications/initialized exactly once (a session that is not initialized
\* has not written it), and an initialized session stays initialized as
\* long as it is registered.
C34_QueueOnlyBeforeInitialized ==
    /\ [](\A sid \in DOMAIN m_sessions :
            /\ m_sessions[sid].m_initialized =>
                  m_sessions[sid].m_pendingRequests = <<>>
            /\ InitializedWritten(m_sessions[sid]) =
                  IF m_sessions[sid].m_initialized THEN 1 ELSE 0)
    /\ [][\A sid \in (DOMAIN m_sessions) \cap (DOMAIN m_sessions') :
             /\ Len(m_sessions'[sid].m_pendingRequests) >
                    Len(m_sessions[sid].m_pendingRequests)
                   => ~m_sessions[sid].m_initialized
             /\ m_sessions[sid].m_initialized => m_sessions'[sid].m_initialized
         ]_vars

\* C34, case reached: two requests were queued, the initialize response came,
\* the queue was written out after the notification, and a later request
\* was written at once
C34_QueueFlushedThenDirect ==
    /\ "s1" \in DOMAIN m_sessions
    /\ m_sessions["s1"].m_initialized
    /\ m_sessions["s1"].m_pendingRequests = <<>>
    /\ Len(m_sessions["s1"].stdin) = 5
    /\ m_sessions["s1"].stdin[1] = InitRequest
    /\ m_sessions["s1"].stdin[2] = InitializedNotification
    /\ lastOp.op = "tools/list"
    /\ lastOp.fwd

-----------------------------------------------------------------------------
(* Supervisor: kill() *)

\* MCPServerInstance::kill: QProcess::kill(), waitForFinished(2000), then
\* setStatus(Stopped).  m_intentionalStop is not touched.  in.exit = "none":
\* the process does not exit within the wait; in.startup: what the wait
\* sees of a process that is still starting
MCPServerInstance_kill(x, in) ==
    LET a == IF x.process = "NotRunning" THEN x
             ELSE [x EXCEPT !.signalled = TRUE,
                            !.last.procOps = Append(@, "kill")]
        b == IF a.process = "Starting"
             THEN IF in.startup = "started"
                  THEN QProcess_startupNotification(a, TRUE)
                  ELSE IF in.startup = "failed"
                  THEN QProcess_startupNotification(a, FALSE)
                  ELSE a
             ELSE a
        c == IF b.process = "Running" /\ in.exit # "none"
             THEN QProcess_processDied(b, "CrashExit")
             ELSE b
    IN  MCPServerInstance_setStatus(c, "Stopped")

\* kill() called by the registry or the window
Call_kill(in) ==
    /\ instance' = MCPServerInstance_kill(Begin("kill", TRUE), in)
    /\ UNCHANGED outsideSupervisor

InputsK ==
    {Input(TRUE, startup, exit, "NormalExit") :
        startup \in {"started", "timeout"}, exit \in {"kill", "none"}}

NextKill ==
    \/ \E in \in InputsK : Call_start(in)
    \/ \E in \in InputsK : Call_stop(in)
    \/ \E in \in InputsK :
          /\ Call_kill(in)
          /\ instance'.timers <= MaxTimers
    \/ \E in \in InputsK :
          /\ instance.m_restartCount < MaxRestartCount
          /\ Call_restart(in)
    \/ \E in \in InputsK :
          /\ instance.m_restartCount < MaxRestartCount
          /\ instance.autoRestarts < MaxAutoRestarts
          /\ RestartTimer_timeout(in)
    \/ \E exitStatus \in {"NormalExit", "CrashExit"} :
          /\ QProcess_finished(exitStatus)
          /\ instance'.timers <= MaxTimers
    \/ \E ok \in BOOLEAN : QProcess_started(ok)

SpecKill == InitSupervisor /\ [][NextKill]_vars

\* C35: kill() of a supervisor whose process is running leaves the
\* supervisor Stopped, emits no crashed() and schedules no restart, also for
\* an auto-start server; and a process that kill() has brought down is not
\* started again by a restart timer.
C35_KillIsIntentionalStop ==
    [][/\ ( /\ instance'.last.op = "kill"
            /\ instance.m_status = "Running"
            /\ instance.process = "Running" )
          => /\ instance'.m_status = "Stopped"
             /\ instance'.last.crashed = 0
             /\ instance'.last.scheduled = 0
       /\ ( /\ instance.last.op = "kill"
            /\ instance.process = "NotRunning"
            /\ instance'.process # "NotRunning" )
          => instance'.last.op \in {"start", "restart"}
      ]_vars

-----------------------------------------------------------------------------
(* Discovery analysis with fairness: a call of refreshTools that is        *)
(* possible is made, and output the process has written is read            *)

SpecDiscoveryFair ==
    /\ InitSupervisor
    /\ [][NextDiscovery]_vars
    /\ WF_vars(\E lines \in ReadsD :
                  /\ MCPServerInstance_onReadyReadStandardOutput(lines)
                  /\ Len(instance'.stdin) <= MaxWrites)

\* how often the message was written to the process started last
TimesWritten(x, message) ==
    Cardinality({i \in 1..Len(x.stdin) : x.stdin[i] = message})

\* C36: the supervisor writes initialize at most once and
\* notifications/initialized at most once to one process, however often
\* refreshTools is called before the handshake response arrives; and after
\* every refreshTools of a Running supervisor a tools/list is eventually
\* written.
C36_OneHandshakePerProcess ==
    /\ [](/\ TimesWritten(instance, "initialize") <= 1
          /\ TimesWritten(instance, "notifications/initialized") <= 1)
    /\ ( (instance.last.op = "refreshTools" /\ instance.last.from = "Running")
           ~> TimesWritten(instance, "tools/list") >= 1 )

-----------------------------------------------------------------------------
(* Claims about disabled tools *)

\* C37: a tool of S that is disabled stays disabled until setToolEnabled
\* enables it: a step after which isToolEnabled is true for a tool it was
\* false for is a setToolEnabled for that tool, never a tools/list response
\* that replaces the descriptors; and a tools/call for a disabled tool by
\* the owner of a session on S is rejected with -32001.
C37_DisabledUntilEnabledAgain ==
    [][\A toolName \in ToolNamesA :
          ~MCPServerInstance_isToolEnabled("S", toolName)
          => /\ MCPServerInstance_isToolEnabled("S", toolName)'
                   => /\ lastOp'.op = "setToolEnabled"
                      /\ lastOp'.tool = toolName
             /\ ( /\ lastOp'.op = "tools/call"
                  /\ lastOp'.tool = toolName
                  /\ OwnershipCode(lastOp'.client, lastOp'.sid) = 0 )
                   => lastOp'.code = -32001
      ]_vars

-----------------------------------------------------------------------------
(* Migration analysis: a service with two keys is stored at the root and   *)
(* under a user, key by key, and the root-level services are migrated      *)

KeysM == {"pat", "org"}

NextMigrate ==
    \/ \E service \in ServicesK, key \in KeysM, value \in ValuesK,
          encOk \in BOOLEAN :
          Keystore_setCredential(service, key, value, 1, encOk)
    \/ \E userId \in UsersK, service \in ServicesK, key \in KeysM,
          value \in ValuesK, encOk \in BOOLEAN :
          Keystore_setUserCredential(userId, service, key, value, 1, encOk)
    \/ \E userId \in UsersK \cup {""}, encOk \in BOOLEAN :
          Keystore_migrateToUser(userId, 1, encOk)
    \/ \E userId \in UsersK \cup {OtherUserK}, service \in ServicesK,
          key \in KeysM :
          LookupUserCredential(userId, service, key, DefaultK)

SpecMigrate == Init /\ [][NextMigrate]_vars

\* C38: migrateToUser(u) with a non-empty u leaves the result of
\* getUserCredential(u, service, key) as it was for every service and key,
\* also when u had keys of a migrated service already, and changes nothing
\* that was stored under users or shared.
C38_MigrationKeepsResolution ==
    [][\A userId \in UsersK :
        (ksLast'.op = "migrateToUser" /\ ksLast'.userId = userId)
        => /\ \A service \in ServicesK, key \in KeysM :
                 Keystore_getUserCredential(userId, service, key, DefaultK)'
                    = Keystore_getUserCredential(userId, service, key,
                                                 DefaultK)
           /\ StoredData'.shared = StoredData.shared
           /\ \A u \in DOMAIN StoredData.users :
                 /\ u \in DOMAIN StoredData'.users
                 /\ \A service \in DOMAIN StoredData.users[u] :
                       /\ service \in DOMAIN StoredData'.users[u]
                       /\ StoredData'.users[u][service]
                             = StoredData.users[u][service]
      ]_vars

-----------------------------------------------------------------------------
(* Claims about the end of a session and list-sessions *)

C40_ListShowsOwnSessionsOnly ==
    [][lastOp'.op = "list-sessions"
       => /\ {e.sessionId : e \in lastOp'.result} =
                {sid \in DOMAIN m_sessions :
                    history[sid].client = lastOp'.client}
          /\ \A e \in lastOp'.result :
                /\ m_sessionClients[e.sessionId] = lastOp'.client
                /\ e.serverType = history[e.sessionId].serverType
                /\ e.active = MCPSession_isServerRunning(e.sessionId)
          /\ Cardinality(lastOp'.result) =
                Cardinality({e.sessionId : e \in lastOp'.result})
      ]_vars

\* C40, case reached: each socket holds one session and the list sent to
\* the first names its own session alone
C40_ListWhileOtherSocketHoldsSession ==
    /\ lastOp.op = "list-sessions"
    /\ lastOp.client = "c1"
    /\ Cardinality(lastOp.result) = 1
    /\ \E sid \in DOMAIN m_sessionClients : m_sessionClients[sid] = "c2"
    /\ \E sid \in DOMAIN m_sessionClients : m_sessionClients[sid] = "c1"

====
